---- MODULE Spec2Model ----
(***************************************************************************)
(* Model of the DOCX-to-PPTX converter: the arrangement-variant block      *)
(* parser and conversion pipeline (mcq2_converter.py driven by             *)
(* ConverterManager), the anchor detection / diagram association engines   *)
(* (mcq2_converter.py, mcq1_converter.py) and the passage pagination       *)
(* (passage_converter.py).                                                 *)
(*                                                                         *)
(* Text is modelled as a sequence of one-character strings, so that the    *)
(* regular expressions and substring tests of the parser are computed on   *)
(* characters as the code computes them.                                   *)
(***************************************************************************)
EXTENDS Integers, Sequences, FiniteSets, TLC

VARIABLES
    \* ---- arrangement-variant conversion (mcq2) through ConverterManager
    doc,                  \* the paragraphs of the input document (raw text)
    pc,                   \* position of the conversion request
    line_idx,             \* index of the next paragraph parse_word_document reads
    content_blocks,       \* parse_word_document: content_blocks
    current_direction,    \* parse_word_document: current_direction
    pending_arrangement,  \* parse_word_document: pending_arrangement
    in_arrangement,       \* parse_word_document: in_arrangement
    extracted_images,     \* convert_word_to_ppt: extracted_images (set of question numbers owning a diagram)
    slides,               \* the slides added to the presentation, in order
    q_idx,                \* convert_word_to_ppt: loop index over questions
    slide_direction,      \* convert_word_to_ppt: current_direction
    output_exists,        \* whether the .pptx exists at output_path
    job_status,           \* ConversionJob.status
    job_error,            \* ConversionJob.error_message
    job_output,           \* whether ConversionJob.output_file is stored
    exc,                  \* the exception propagating to ConverterManager.convert, or None
    \* ---- anchor detection on one page (detect_question_regions_enhanced)
    pass_idx,             \* index of the next preprocessing method
    candidates,           \* question_regions while the passes run
    anchors,              \* the list the function returns
    dpc,                  \* position of the detection: "passes" or "returned"
    \* ---- diagram extraction and association over the pages of one document
    variant,              \* "mcq1" or "mcq2": which converter's extraction runs
    page_idx,             \* index of the page being processed
    question_regions,     \* anchors detected on the page being processed
    cnt_count,            \* contours processed so far
    contour,              \* the contour processed last (<<>>: none yet)
    chosen,               \* the question number associated with it (NoAnchor: none)
    results,              \* results: question number -> list of image paths
    written,              \* the files cv2.imwrite has written, in order
    epc,                  \* position of the extraction
    \* ---- passage pagination
    fragments,            \* content.split('.') of the passage body
    sentences,            \* split_passage_content: sentences
    sent_idx,             \* index of the next sentence
    slide_contents,       \* split_passage_content: slide_contents
    current_chunk,        \* split_passage_content: current_chunk
    current_length,       \* split_passage_content: current_length
    chars_per_slide,      \* self.chars_per_slide
    configured_budget,    \* converter.chars_per_slide as the caller set it (main, line 528)
    created_slides,       \* create_passage_slides: created_slides
    ppc,                  \* position of the pagination
    \* ---- passage conversion (WordToPowerPointConverter.convert)
    readable,             \* whether read_docx_file returns the text of the document
    sections,             \* parse_document_content: sections
    psg_idx,              \* index of the passage the loop of convert is at
    pq_idx,               \* index of the next question group of that passage
    prs_slides,           \* prs.slides: the slides of the presentation, in order
    presult,              \* what convert returns (None: still running)
    cpc,                  \* position of the passage conversion
    \* ---- conversion requests sharing the scratch directories of the server
    renderer,             \* whether the soffice binary is installed
    reqs,                 \* the conversion requests: template type, position, job status and error
    dirs,                 \* the scratch directories that exist
    files,                \* the files in them: directory, name and the request that wrote them
    \* ---- diagram placement on a question slide (mcq1_converter.py, create_formatted_slide)
    img_width,                \* pixel width of the diagram image
    img_height,                \* pixel height of the diagram image
    pic_left,             \* left edge of the placed picture, in EMU
    pic_width,            \* width of the placed picture, in EMU
    pic_height,           \* height of the placed picture, in EMU
    ipc,                  \* position in create_formatted_slide
    \* ---- an upload request and its conversion job (views.py, forms.py, converters.py)
    entry,                \* "form": a POST to HomeView; "direct": convert(job) on an existing job
    up_present,           \* the POST carries an input_file
    up_name,              \* name of the uploaded file
    up_size,              \* size of the uploaded file in bytes
    post_type,            \* template_type of the POST ("" when missing)
    form_errors,          \* form.errors: the messages of each field
    job,                  \* the ConversionJob of the request
    called,               \* the converter function convert has called ("none" before)
    conv_exc,             \* the exception on its way to the except clause of convert
    response,             \* what the caller gets back
    wpc,                  \* position in the request
    \* ---- parse_document_content of the passage variant (passage_converter.py)
    pcontent,             \* the lines of the document text, each ended by a newline
    passage_matches,      \* what re.findall returned: the marker and the text of each passage
    match_idx,            \* index of the passage match the loop is at
    parsed,               \* sections['passages']
    parse_pc,             \* position in parse_document_content
    \* ---- cleanup_old_conversions: the jobs, the stored files, the loop of handle
    rows,                 \* ids of the ConversionJob rows in the database
    created,              \* created_at of each job, in days
    storage,              \* the stored files: <<id, "input">>, <<id, "output">>
    days,                 \* options['days']
    dry_run,              \* options['dry_run']
    old_jobs,             \* the jobs of the queryset the loop has yet to visit
    visited,              \* the jobs the loop has visited, in order
    errored,              \* the jobs of the "Error deleting job" lines of stdout
    deleted_count,        \* deleted_count of handle
    clpc,                 \* where handle is
    \* ---- mcq3_converter.parse_word_document
    paragraphs,           \* para.text of doc.paragraphs
    para_idx,             \* the paragraph the loop is at
    blocks3,              \* content_blocks
    direction3,           \* current_direction: <<>> for None, else <<text>>
    question3,            \* current_question: <<>> for None, else its lines
    text_info,            \* text_info
    m3pc                  \* where parse_word_document is

mcq2vars  == <<doc, pc, line_idx, content_blocks, current_direction,
               pending_arrangement, in_arrangement, extracted_images, slides,
               q_idx, slide_direction, output_exists, job_status, job_error,
               job_output, exc>>
detvars   == <<pass_idx, candidates, anchors, dpc>>
assocvars == <<variant, page_idx, question_regions, cnt_count, contour, chosen,
               results, written, epc>>
splitvars == <<fragments, sentences, sent_idx, slide_contents, current_chunk,
               current_length, chars_per_slide, configured_budget, created_slides, ppc>>
passvars == <<readable, sections, psg_idx, pq_idx, prs_slides, presult, cpc>>
scrvars == <<renderer, reqs, dirs, files>>
imgvars == <<img_width, img_height, pic_left, pic_width, pic_height, ipc>>
webvars == <<entry, up_present, up_name, up_size, post_type, form_errors, job, called, conv_exc, response, wpc>>
ppvars == <<pcontent, passage_matches, match_idx, parsed, parse_pc>>
clnvars == <<rows, created, storage, days, dry_run, old_jobs, visited, errored, deleted_count, clpc>>
m3vars == <<paragraphs, para_idx, blocks3, direction3, question3, text_info, m3pc>>
vars == <<mcq2vars,
         detvars,
         assocvars,
         splitvars,
         passvars,
         scrvars,
         imgvars,
         webvars,
         ppvars,
         clnvars,
         m3vars>>

(***************************************************************************)
(* Bounds of the model                                                     *)
(***************************************************************************)
MaxLines == 4

(***************************************************************************)
(* Characters and text helpers                                             *)
(***************************************************************************)
\* Python's None; text is a sequence of one-character strings and a message a
\* sequence of one string, so neither equals it
None == <<"None">>

Digits == {"0", "1", "2", "3", "4", "5", "6", "7", "8", "9"}

UpperSeq == <<"A", "B", "C", "D", "E", "F", "G", "H", "I", "J", "K", "L", "M",
              "N", "O", "P", "Q", "R", "S", "T", "U", "V", "W", "X", "Y", "Z">>
LowerSeq == <<"a", "b", "c", "d", "e", "f", "g", "h", "i", "j", "k", "l", "m",
              "n", "o", "p", "q", "r", "s", "t", "u", "v", "w", "x", "y", "z">>
Upper == {UpperSeq[k] : k \in 1..26}

\* \s of the re module, restricted to the characters paragraphs hold
Space == {" ", "\t", "\n"}

\* the characters of ['→', '↑', '↓', '←'], each named by its code point
Arrows == {"U+2192", "U+2191", "U+2193", "U+2190"}

LowerChar(c) == IF c \in Upper
                THEN LowerSeq[CHOOSE k \in 1..26 : UpperSeq[k] = c]
                ELSE c

\* str.lower()
Lower(text) == [k \in 1..Len(text) |-> LowerChar(text[k])]

\* text.startswith(prefix)
StartsWith(text, prefix) ==
    /\ Len(text) >= Len(prefix)
    /\ SubSeq(text, 1, Len(prefix)) = prefix

\* text.endswith(suffix)
EndsWith(text, suffix) ==
    /\ Len(text) >= Len(suffix)
    /\ SubSeq(text, Len(text) - Len(suffix) + 1, Len(text)) = suffix

\* sub in text
Contains(text, sub) ==
    \E k \in 0..(Len(text) - Len(sub)) : SubSeq(text, k + 1, k + Len(sub)) = sub

\* str.strip()
Strip(text) ==
    LET keep == {k \in 1..Len(text) : text[k] \notin Space}
    IN  IF keep = {} THEN <<>>
        ELSE LET lo == CHOOSE k \in keep : \A m \in keep : k <= m
                 hi == CHOOSE k \in keep : \A m \in keep : k >= m
             IN  SubSeq(text, lo, hi)

\* text.replace('**', ''), scanning left to right
RECURSIVE RemoveBold(_)
RemoveBold(text) ==
    IF Len(text) = 0 THEN <<>>
    ELSE IF StartsWith(text, <<"*", "*">>)
         THEN RemoveBold(SubSeq(text, 3, Len(text)))
         ELSE <<text[1]>> \o RemoveBold(SubSeq(text, 2, Len(text)))

\* number of leading characters of text that lie in the class cls
RECURSIVE RunLength(_, _)
RunLength(text, cls) ==
    IF Len(text) = 0 \/ text[1] \notin cls THEN 0
    ELSE 1 + RunLength(SubSeq(text, 2, Len(text)), cls)

Tail_(text, n) == SubSeq(text, n + 1, Len(text))

DigitValue(c) == CHOOSE v \in 0..9 : <<"0", "1", "2", "3", "4", "5", "6", "7", "8", "9">>[v + 1] = c

\* int() of a sequence of digits
RECURSIVE IntOf(_)
IntOf(ds) ==
    IF Len(ds) = 0 THEN 0
    ELSE 10 * IntOf(SubSeq(ds, 1, Len(ds) - 1)) + DigitValue(ds[Len(ds)])

(***************************************************************************)
(* The input vocabulary: the paragraph texts documents are built of        *)
(***************************************************************************)
\* "1. What is 2+2?"
LineQ1 == <<"1", ".", " ", "W", "h", "a", "t", " ", "i", "s", " ", "2", "+", "2", "?">>
\* "12. Pick one"
LineQ12 == <<"1", "2", ".", " ", "P", "i", "c", "k", " ", "o", "n", "e">>
\* "(1) 3", "(2) 4", "(3) 5"
LineO1 == <<"(", "1", ")", " ", "3">>
LineO2 == <<"(", "2", ")", " ", "4">>
LineO3 == <<"(", "3", ")", " ", "5">>
\* "so " : a body line that matches no pattern (stripped by the parser)
LinePlain == <<"s", "o", " ">>
\* "Final order" : an arrangement marker phrase
LineArrKw == <<"F", "i", "n", "a", "l", " ", "o", "r", "d", "e", "r">>
\* "A B," : a letter arrangement that continues on the next line
LineArrPat == <<"A", " ", "B", ",">>
\* "DIRECTIONS:"
LineDir == <<"D", "I", "R", "E", "C", "T", "I", "O", "N", "S", ":">>
\* "-----" : a table separator rule
LineSep == <<"-", "-", "-", "-", "-">>

\* "3. Final?" : a question whose own text holds an arrangement marker phrase
LineQFinal == <<"3", ".", " ", "F", "i", "n", "a", "l", "?">>

Lines == {LineQ1, LineQ12, LineO1, LinePlain, LineArrKw, LineArrPat, LineDir, LineSep,
          LineQFinal}

\* the scenario document "1. What is 2+2?\n(1) 3\n(2) 4\n(3) 5"
ScenarioDoc == <<LineQ1, LineO1, LineO2, LineO3>>

\* the documents of at most MaxLines paragraphs over the vocabulary, and the scenario
Docs == UNION {[1..n -> Lines] : n \in 0..MaxLines} \cup {ScenarioDoc}

(***************************************************************************)
(* parse_word_document (mcq2): line patterns                               *)
(***************************************************************************)
\* "Directions for questions" in text or "DIRECTIONS:" in text
IsDirection(text) ==
    \/ Contains(text, <<"D", "i", "r", "e", "c", "t", "i", "o", "n", "s", " ", "f", "o", "r", " ",
                        "q", "u", "e", "s", "t", "i", "o", "n", "s">>)
    \/ Contains(text, <<"D", "I", "R", "E", "C", "T", "I", "O", "N", "S", ":">>)

\* "arrangement" in text.lower() or "final" in text.lower() or "follows" in text.lower()
IsArrangementLine(text) ==
    \/ Contains(Lower(text), <<"a", "r", "r", "a", "n", "g", "e", "m", "e", "n", "t">>)
    \/ Contains(Lower(text), <<"f", "i", "n", "a", "l">>)
    \/ Contains(Lower(text), <<"f", "o", "l", "l", "o", "w", "s">>)

\* re.match(r'^[A-Z]+\s+X', text) with X a character class; one is True for ^[A-Z]\s+X
UpperSpaceThen(text, cls, one) ==
    LET u == RunLength(text, Upper)
        n == IF one THEN 1 ELSE u
        r == Tail_(text, n)
        w == RunLength(r, Space)
    IN  /\ u >= 1
        /\ w >= 1
        /\ Len(r) > w
        /\ r[w + 1] \in cls

\* the arrangement patterns tested while in_arrangement
IsArrangementPattern(text) ==
    \/ StartsWith(text, <<"[">>)
    \/ \E k \in 1..5 : k <= Len(text) /\ text[k] = ">"
    \/ UpperSpaceThen(text, Upper, TRUE)
    \/ UpperSpaceThen(text, {">"}, TRUE)
    \/ Contains(text, <<"_">>)
    \/ StartsWith(text, <<"*", "*">>)
    \/ UpperSpaceThen(text, Upper, FALSE)
    \/ \E k \in 1..Len(text) : text[k] \in Arrows

\* re.match(r'^\d{1,2}+\.', text)
IsQuestionMarker(text) ==
    LET d == RunLength(text, Digits)
        n == IF d > 2 THEN 2 ELSE d
    IN  /\ n >= 1
        /\ Len(text) > n
        /\ text[n + 1] = "."

\* a mutant of IsOption: the pattern ^\d+\) without the opening parenthesis
IsOption_NoParen(text) ==
    LET d == RunLength(text, Digits)
    IN  d >= 1 /\ Len(text) > d /\ text[d + 1] = ")"

\* re.match(r'^\(\d+\)', text) or re.match(r'^\\\(\d+\\\)', text)
IsOption(text) ==
    \/ /\ StartsWith(text, <<"(">>)
       /\ LET d == RunLength(Tail_(text, 1), Digits)
          IN  d >= 1 /\ Len(text) > d + 1 /\ text[d + 2] = ")"
    \/ /\ StartsWith(text, <<"\\", "(">>)
       /\ LET d == RunLength(Tail_(text, 2), Digits)
          IN  d >= 1 /\ Len(text) > d + 3 /\ text[d + 3] = "\\" /\ text[d + 4] = ")"

\* text.startswith('-----') or text.startswith('===') or
\* '|' in text and len(text.split('|')) > 2
IsTableOrSeparator(text) ==
    \/ StartsWith(text, <<"-", "-", "-", "-", "-">>)
    \/ StartsWith(text, <<"=", "=", "=">>)
    \/ Cardinality({k \in 1..Len(text) : text[k] = "|"}) >= 2

\* the if / elif / elif chain on direction, arrangement marker and in_arrangement:
\* the values of current_direction, pending_arrangement and in_arrangement after it
AfterMarkers(text, dir, pend, inArr) ==
    IF IsDirection(text)
    THEN [dir |-> text, pend |-> pend, inArr |-> inArr]
    ELSE IF IsArrangementLine(text)
    THEN [dir |-> dir, pend |-> text \o <<"\n">>, inArr |-> TRUE]
    ELSE IF inArr /\ IsArrangementPattern(text)
    THEN [dir   |-> dir,
          pend  |-> (IF pend # None /\ pend # <<>> THEN pend ELSE <<>>)
                    \o Strip(RemoveBold(text)) \o <<"\n">>,
          inArr |-> EndsWith(text, <<",">>)]
    ELSE [dir |-> dir, pend |-> pend, inArr |-> inArr]

\* the dict appended for a question marker line
NewQuestion(text, dir, pend) ==
    [type |-> "question", direction |-> dir, arrangement |-> pend,
     content |-> text, options |-> <<>>]

\* the question number convert_word_to_ppt reads back from a block:
\* re.search(r'^(\*\*)?(\d+)\.', content), None when there is no match
QuestionNum(content) ==
    LET t == IF StartsWith(content, <<"*", "*">>) THEN Tail_(content, 2) ELSE content
        d == RunLength(t, Digits)
    IN  IF d >= 1 /\ Len(t) > d /\ t[d + 1] = "."
        THEN IntOf(SubSeq(t, 1, d))
        ELSE -1

(***************************************************************************)
(* Idle values of the variables a specification does not use               *)
(***************************************************************************)
DetIdle ==
    /\ pass_idx = 0 /\ candidates = <<>> /\ anchors = <<>> /\ dpc = "idle"

AssocIdle ==
    /\ variant = "idle" /\ page_idx = 0 /\ question_regions = <<>> /\ cnt_count = 0
    /\ contour = <<>> /\ chosen = 0 /\ results = <<>> /\ written = <<>> /\ epc = "idle"

SplitIdle ==
    /\ fragments = <<>> /\ sentences = <<>> /\ sent_idx = 0 /\ slide_contents = <<>>
    /\ current_chunk = <<>> /\ current_length = 0 /\ chars_per_slide = 0
    /\ configured_budget = 0
    /\ created_slides = <<>> /\ ppc = "idle"

PassIdle ==
    /\ readable = FALSE /\ sections = <<>> /\ psg_idx = 0 /\ pq_idx = 0
    /\ prs_slides = <<>> /\ presult = None /\ cpc = "idle"

ScrIdle ==
    /\ renderer = FALSE /\ reqs = <<>> /\ dirs = {} /\ files = {}

ImgIdle ==
    img_width = 0 /\ img_height = 0 /\ pic_left = 0 /\ pic_width = 0 /\ pic_height = 0 /\ ipc = "idle"

WebIdle ==
    /\ entry = "idle" /\ up_present = FALSE /\ up_name = <<>> /\ up_size = 0
    /\ post_type = "" /\ called = "none"
    /\ form_errors = [input_file |-> {}, template_type |-> {}]
    /\ job = [saved |-> FALSE, template_type |-> "", status |-> "pending",
              error_message |-> None, output_file |-> FALSE, processing_time |-> FALSE]
    /\ conv_exc = None /\ response = "none" /\ wpc = "idle"

PpIdle ==
    pcontent = <<>> /\ passage_matches = <<>> /\ match_idx = 0 /\ parsed = <<>> /\ parse_pc = "idle"

ClnIdle ==
    /\ rows = {} /\ created = <<>> /\ storage = {} /\ days = 0 /\ dry_run = FALSE
    /\ old_jobs = {} /\ visited = <<>> /\ errored = {} /\ deleted_count = 0 /\ clpc = "idle"

M3Idle ==
    /\ paragraphs = <<>> /\ para_idx = 0 /\ blocks3 = <<>> /\ direction3 = <<>>
    /\ question3 = <<>> /\ text_info = FALSE /\ m3pc = "idle"

Mcq2Idle ==
    /\ doc = <<>> /\ pc = "idle" /\ line_idx = 0 /\ content_blocks = <<>>
    /\ current_direction = None /\ pending_arrangement = None /\ in_arrangement = FALSE
    /\ extracted_images = <<>> /\ slides = <<>> /\ q_idx = 0 /\ slide_direction = None
    /\ output_exists = FALSE /\ job_status = "pending" /\ job_error = None
    /\ job_output = FALSE /\ exc = None

(***************************************************************************)
(* What a specification leaves alone: the variables of the other ones      *)
(***************************************************************************)
mcq2frame  == <<detvars, assocvars, splitvars, passvars, scrvars, imgvars, webvars, ppvars, clnvars, m3vars>>
detframe   == <<mcq2vars, assocvars, splitvars, passvars, scrvars, imgvars, webvars, ppvars, clnvars, m3vars>>
assocframe == <<mcq2vars, detvars, splitvars, passvars, scrvars, imgvars, webvars, ppvars, clnvars, m3vars>>
splitframe == <<mcq2vars, detvars, assocvars, passvars, scrvars, imgvars, webvars, ppvars, clnvars, m3vars>>
passframe == <<mcq2vars, detvars, assocvars, splitvars, scrvars, imgvars, webvars, ppvars, clnvars, m3vars>>
scrframe == <<mcq2vars, detvars, assocvars, splitvars, passvars, imgvars, webvars, ppvars, clnvars, m3vars>>
imgframe == <<mcq2vars, detvars, assocvars, splitvars, passvars, scrvars, webvars, ppvars, clnvars, m3vars>>
webframe == <<mcq2vars, detvars, assocvars, splitvars, passvars, scrvars, imgvars, ppvars, clnvars, m3vars>>
ppframe == <<mcq2vars, detvars, assocvars, splitvars, passvars, scrvars, imgvars, webvars, clnvars, m3vars>>
clnframe == <<mcq2vars, detvars, assocvars, splitvars, passvars, scrvars, imgvars, webvars, ppvars, m3vars>>
m3frame == <<mcq2vars, detvars, assocvars, splitvars, passvars, scrvars, imgvars, webvars, ppvars, clnvars>>

Mcq2FrameIdle  == DetIdle /\ AssocIdle /\ SplitIdle /\ PassIdle /\ ScrIdle /\ ImgIdle /\ WebIdle /\ PpIdle /\ ClnIdle /\ M3Idle
DetFrameIdle   == Mcq2Idle /\ AssocIdle /\ SplitIdle /\ PassIdle /\ ScrIdle /\ ImgIdle /\ WebIdle /\ PpIdle /\ ClnIdle /\ M3Idle
AssocFrameIdle == Mcq2Idle /\ DetIdle /\ SplitIdle /\ PassIdle /\ ScrIdle /\ ImgIdle /\ WebIdle /\ PpIdle /\ ClnIdle /\ M3Idle
SplitFrameIdle == Mcq2Idle /\ DetIdle /\ AssocIdle /\ PassIdle /\ ScrIdle /\ ImgIdle /\ WebIdle /\ PpIdle /\ ClnIdle /\ M3Idle
PassFrameIdle == Mcq2Idle /\ DetIdle /\ AssocIdle /\ SplitIdle /\ ScrIdle /\ ImgIdle /\ WebIdle /\ PpIdle /\ ClnIdle /\ M3Idle
ScrFrameIdle == Mcq2Idle /\ DetIdle /\ AssocIdle /\ SplitIdle /\ PassIdle /\ ImgIdle /\ WebIdle /\ PpIdle /\ ClnIdle /\ M3Idle
ImgFrameIdle == Mcq2Idle /\ DetIdle /\ AssocIdle /\ SplitIdle /\ PassIdle /\ ScrIdle /\ WebIdle /\ PpIdle /\ ClnIdle /\ M3Idle
WebFrameIdle == Mcq2Idle /\ DetIdle /\ AssocIdle /\ SplitIdle /\ PassIdle /\ ScrIdle /\ ImgIdle /\ PpIdle /\ ClnIdle /\ M3Idle
PpFrameIdle == Mcq2Idle /\ DetIdle /\ AssocIdle /\ SplitIdle /\ PassIdle /\ ScrIdle /\ ImgIdle /\ WebIdle /\ ClnIdle /\ M3Idle
ClnFrameIdle == Mcq2Idle /\ DetIdle /\ AssocIdle /\ SplitIdle /\ PassIdle /\ ScrIdle /\ ImgIdle /\ WebIdle /\ PpIdle /\ M3Idle
M3FrameIdle == Mcq2Idle /\ DetIdle /\ AssocIdle /\ SplitIdle /\ PassIdle /\ ScrIdle /\ ImgIdle /\ WebIdle /\ PpIdle /\ ClnIdle

(***************************************************************************)
(* The arrangement-variant conversion of one job:                          *)
(* ConverterManager.convert -> convert_mcq2 -> convert_word_to_ppt         *)
(***************************************************************************)
\* the message of the TypeError raised by `text in pending_arrangement` on None,
\* as convert_mcq2 wraps it in a ConversionError
TypeErrorMessage == <<"MCQ Type 2 conversion error: argument of type 'NoneType' is not iterable">>

\* the question-to-diagram maps extract_images_from_document may return
\* ({} also when any stage of the extraction raised)
ImageMaps == {<<>>, (1 :> <<"q1_diagram.png">>)}

\* a mutant of Truthy: every value counts as true
Truthy_Always(v) == TRUE

\* Python truthiness of a str-or-None value
Truthy(v) == v # None /\ v # <<>>

Mcq2Init ==
    /\ doc \in Docs
    /\ pc = "start"
    /\ line_idx = 1
    /\ content_blocks = <<>>
    /\ current_direction = None
    /\ pending_arrangement = None
    /\ in_arrangement = FALSE
    /\ extracted_images = <<>>
    /\ slides = <<>>
    /\ q_idx = 1
    /\ slide_direction = None
    /\ output_exists = FALSE
    /\ job_status = "pending"
    /\ job_error = None
    /\ job_output = FALSE
    /\ exc = None
    /\ Mcq2FrameIdle

\* ConverterManager.convert: job.status = 'processing'; job.save(); the converter is looked up
ConvertStart ==
    /\ pc = "start"
    /\ job_status' = "processing"
    /\ pc' = "parse"
    /\ UNCHANGED <<doc, line_idx, content_blocks, current_direction, pending_arrangement,
                   in_arrangement, extracted_images, slides, q_idx, slide_direction,
                   output_exists, job_error, job_output, exc>>
    /\ UNCHANGED mcq2frame

\* the last block with text appended to its options
AppendOption(blocks, text) ==
    [blocks EXCEPT ![Len(blocks)].options = Append(@, text)]

\* the last block with '\n' + text appended to its content
AppendContent(blocks, text) ==
    [blocks EXCEPT ![Len(blocks)].content = @ \o <<"\n">> \o text]

\* one iteration of `for para in doc.paragraphs` of parse_word_document
ParseLine ==
    /\ pc = "parse"
    /\ line_idx <= Len(doc)
    /\ line_idx' = line_idx + 1
    /\ LET text == Strip(doc[line_idx])
           m    == AfterMarkers(text, current_direction, pending_arrangement, in_arrangement)
       IN  IF text = <<>>
           THEN UNCHANGED <<content_blocks, current_direction, pending_arrangement,
                            in_arrangement, pc, exc>>
           ELSE /\ current_direction' = m.dir
                /\ in_arrangement' = m.inArr
                /\ IF IsQuestionMarker(text)
                   THEN /\ content_blocks' = Append(content_blocks,
                                                    NewQuestion(text, m.dir, m.pend))
                        /\ pending_arrangement' = None
                        /\ UNCHANGED <<pc, exc>>
                   ELSE /\ pending_arrangement' = m.pend
                        /\ IF content_blocks # <<>>
                              /\ content_blocks[Len(content_blocks)].type = "question"
                           THEN IF IsOption(text)
                                THEN /\ content_blocks' = AppendOption(content_blocks, text)
                                     /\ UNCHANGED <<pc, exc>>
                                ELSE IF IsTableOrSeparator(text)
                                THEN UNCHANGED <<content_blocks, pc, exc>>
                                ELSE IF m.pend = None
                                THEN \* `text in None` raises TypeError
                                     /\ exc' = TypeErrorMessage
                                     /\ pc' = "except"
                                     /\ UNCHANGED content_blocks
                                ELSE IF Contains(m.pend, text)
                                THEN UNCHANGED <<content_blocks, pc, exc>>
                                ELSE /\ content_blocks' = AppendContent(content_blocks, text)
                                     /\ UNCHANGED <<pc, exc>>
                           ELSE UNCHANGED <<content_blocks, pc, exc>>
    /\ UNCHANGED <<doc, extracted_images, slides, q_idx, slide_direction, output_exists,
                   job_status, job_error, job_output>>
    /\ UNCHANGED mcq2frame

\* parse_word_document returns content_blocks at the end of the paragraphs
ParseReturn ==
    /\ pc = "parse"
    /\ line_idx > Len(doc)
    /\ pc' = "extract"
    /\ UNCHANGED <<doc, line_idx, content_blocks, current_direction, pending_arrangement,
                   in_arrangement, extracted_images, slides, q_idx, slide_direction,
                   output_exists, job_status, job_error, job_output, exc>>
    /\ UNCHANGED mcq2frame

\* extracted_images = extract_images_from_document(word_path)
ExtractImages ==
    /\ pc = "extract"
    /\ extracted_images' \in ImageMaps
    /\ pc' = "slides"
    /\ UNCHANGED <<doc, line_idx, content_blocks, current_direction, pending_arrangement,
                   in_arrangement, slides, q_idx, slide_direction, output_exists,
                   job_status, job_error, job_output, exc>>
    /\ UNCHANGED mcq2frame

\* create_arrangement_slide(prs, arrangement_text, direction_text, num, diagram_path)
ArrangementSlide(arrangement_text, direction_text, num, diagram_path) ==
    [kind      |-> "arrangement",
     direction |-> IF Truthy(direction_text) /\ num = 0 THEN direction_text ELSE None,
     text      |-> Strip(arrangement_text),
     options   |-> <<>>,
     diagram   |-> diagram_path]

\* create_question_slide(prs, question_data)
QuestionSlide(question_data) ==
    [kind      |-> "question",
     direction |-> None,
     text      |-> question_data.content,
     options   |-> question_data.options,
     diagram   |-> None]

\* one iteration of `for i, question in enumerate(questions)` of convert_word_to_ppt
CreateSlides ==
    /\ pc = "slides"
    /\ q_idx <= Len(content_blocks)
    /\ LET question     == content_blocks[q_idx]
           question_num == QuestionNum(question.content)
           direction    == IF Truthy(question.direction) /\ question.direction # slide_direction
                           THEN question.direction ELSE slide_direction
           diagram      == IF question_num > 0 /\ question_num \in DOMAIN extracted_images
                              /\ extracted_images[question_num] # <<>>
                           THEN <<extracted_images[question_num][1]>> ELSE None
       IN  /\ slide_direction' = direction
           /\ slides' = slides
                \o (IF Truthy(question.arrangement)
                    THEN <<ArrangementSlide(question.arrangement, direction, q_idx - 1, diagram)>>
                    ELSE <<>>)
                \o <<QuestionSlide(question)>>
    /\ q_idx' = q_idx + 1
    /\ UNCHANGED <<doc, pc, line_idx, content_blocks, current_direction, pending_arrangement,
                   in_arrangement, extracted_images, output_exists, job_status, job_error,
                   job_output, exc>>
    /\ UNCHANGED mcq2frame

\* prs.save(ppt_path) after the loop, and the removal of extracted_diagrams
SavePresentation ==
    /\ pc = "slides"
    /\ q_idx > Len(content_blocks)
    /\ output_exists' = TRUE
    /\ pc' = "saved"
    /\ UNCHANGED <<doc, line_idx, content_blocks, current_direction, pending_arrangement,
                   in_arrangement, extracted_images, slides, q_idx, slide_direction,
                   job_status, job_error, job_output, exc>>
    /\ UNCHANGED mcq2frame

\* convert_mcq2 finds the output file; convert stores it in job.output_file, removes
\* the temporary file and marks the job completed
ConvertFinish ==
    /\ pc = "saved"
    /\ IF output_exists
       THEN /\ job_output' = TRUE
            /\ output_exists' = FALSE
            /\ job_status' = "completed"
            /\ UNCHANGED job_error
       ELSE /\ job_status' = "failed"
            /\ job_error' = <<"MCQ Type 2 conversion error: MCQ Type 2 conversion failed - output file not created">>
            /\ UNCHANGED <<job_output, output_exists>>
    /\ pc' = "done"
    /\ UNCHANGED <<doc, line_idx, content_blocks, current_direction, pending_arrangement,
                   in_arrangement, extracted_images, slides, q_idx, slide_direction, exc>>
    /\ UNCHANGED mcq2frame

\* the `except Exception as e` branch of ConverterManager.convert
ConvertExcept ==
    /\ pc = "except"
    /\ job_status' = "failed"
    /\ job_error' = exc
    /\ pc' = "done"
    /\ UNCHANGED <<doc, line_idx, content_blocks, current_direction, pending_arrangement,
                   in_arrangement, extracted_images, slides, q_idx, slide_direction,
                   output_exists, job_output, exc>>
    /\ UNCHANGED mcq2frame

Mcq2Next ==
    \/ ConvertStart
    \/ ParseLine
    \/ ParseReturn
    \/ ExtractImages
    \/ CreateSlides
    \/ SavePresentation
    \/ ConvertFinish
    \/ ConvertExcept

SpecMcq2 == Mcq2Init /\ [][Mcq2Next]_vars

(***************************************************************************)
(* Properties of the arrangement-variant parser and conversion             *)
(***************************************************************************)
\* parse_word_document has ended, by returning or by raising
ParseEnded == pc \in {"extract", "slides", "saved", "done", "except"}

\* the indices of the question-marker lines of a document
Markers(d) == {k \in 1..Len(d) : IsQuestionMarker(Strip(d[k]))}

\* the number written in a marker line
MarkerNum(text) == IntOf(SubSeq(text, 1, IF RunLength(text, Digits) > 2 THEN 2
                                         ELSE RunLength(text, Digits)))

\* marker k is followed by an option line before the next marker
HasOption(d, k) ==
    \E j \in (k + 1)..Len(d) :
        /\ IsOption(Strip(d[j]))
        /\ \A m \in (k + 1)..j : m \notin Markers(d)

\* every marker has an option, and the markers carry distinct numbers
WellFormed(d) ==
    /\ \A k \in Markers(d) : HasOption(d, k)
    /\ \A j, k \in Markers(d) :
          j # k => MarkerNum(Strip(d[j])) # MarkerNum(Strip(d[k]))

\* the index in d of the n-th marker line
NthMarker(d, n) ==
    CHOOSE k \in Markers(d) : Cardinality({j \in Markers(d) : j <= k}) = n

\* the records are the markers, in source order, numbered as found, each with an option
RecordsMatchMarkers ==
    /\ Len(content_blocks) = Cardinality(Markers(doc))
    /\ \A n \in 1..Len(content_blocks) :
          /\ QuestionNum(content_blocks[n].content)
                = MarkerNum(Strip(doc[NthMarker(doc, n)]))
          /\ Len(content_blocks[n].options) >= 1

\* C1: for every line sequence with N distinct question markers, each followed by at
\* least one option line before the next marker, the parser emits exactly N Question
\* records, in source order, numbered as found, each holding at least one option.
C1_MarkersBecomeRecords ==
    (ParseEnded /\ WellFormed(doc)) => (exc = None /\ RecordsMatchMarkers)

\* "What is 2+2?"
ScenarioBody == <<"W", "h", "a", "t", " ", "i", "s", " ", "2", "+", "2", "?">>

Closed(k) == k < Len(content_blocks) \/ pc \in {"extract", "slides", "saved", "done"}

\* C3: whenever a Question record is closed with zero options the whole conversion
\* fails: no slide is emitted for that question and the job does not end completed.
C3_ZeroOptionsFailConversion ==
    \A k \in 1..Len(content_blocks) :
        (Closed(k) /\ content_blocks[k].options = <<>>) =>
            /\ job_status # "completed"
            /\ \A n \in 1..Len(slides) :
                  ~(slides[n].kind = "question" /\ slides[n].text = content_blocks[k].content)

\* C4: when the input contains zero question markers the conversion reports failure
\* and no output presentation is produced: the job never ends completed with an
\* empty deck.
C4_NoMarkersNoOutput ==
    (Markers(doc) = {}) => (job_status # "completed" /\ ~job_output)

(***************************************************************************)
(* Anchor detection: detect_question_regions_enhanced (mcq2) and           *)
(* detect_question_regions (mcq1)                                          *)
(***************************************************************************)
MaxTokens == 2

\* len(preprocessing_methods)
NumPasses == 3
\* `if len(question_regions) >= 5`
MinAnchors == 5
\* `data['conf'][i] > 30`
ConfThreshold == 30
\* `if w > 5 and h > 5`
MinBoxSize == 5
\* `1 <= int(text) <= 30`
MaxSplitNumber == 30

\* one entry of the dict pytesseract.image_to_data returns
OcrToken(text, conf, left, top) ==
    [text |-> text, conf |-> conf, left |-> left, top |-> top, width |-> 20, height |-> 20]

TokA   == OcrToken(<<"1", ".">>, 90, 100, 100)   \* "1." in the left column
TokB   == OcrToken(<<"1", ".">>, 60, 700, 400)   \* "1." again, lower confidence, right column
TokC   == OcrToken(<<"2", ".">>, 60, 700, 100)   \* "2." in the right column
TokD   == OcrToken(<<"3", ".">>, 20, 100, 250)   \* "3." read with confidence 20
TokF   == OcrToken(<<"4", ".">>, 70, 100, 400)   \* "4." in the left column
TokTwo == OcrToken(<<"2">>, 95, 100, 400)        \* "2" split from its period
TokDot == OcrToken(<<".">>, 95, 120, 400)        \* the period token

OcrTokens == {TokA, TokB, TokC, TokD}

\* the token sequences of at most n tokens
TokenSeqs(n) == UNION {[1..k -> OcrTokens] : k \in 0..n}

\* a page dense with question numbers
DensePass == <<TokA, TokTwo, TokDot, TokC, TokB, TokF>>

\* what one OCR pass may return (a pass that raises contributes like an empty one:
\* `continue` skips only the early-stop test, which failed before the pass)
PassOutputs == TokenSeqs(MaxTokens) \cup {DensePass}

\* re.match(r'^(\d{1,2})\.$', text) or re.match(r'^(\d{1,2})\.\s*$', text), on stripped text
IsNumberDot(text) ==
    LET d == RunLength(text, Digits)
    IN  d \in 1..2 /\ Len(text) = d + 1 /\ text[d + 1] = "."

\* str.isdigit()
IsDigits(text) == Len(text) >= 1 /\ RunLength(text, Digits) = Len(text)

\* the question_num the loop body computes for token i of data; 0 stands for None
TokenNumber(data, i) ==
    LET text == Strip(data[i].text)
        m    == IF IsNumberDot(text) THEN IntOf(SubSeq(text, 1, Len(text) - 1)) ELSE 0
    IN  IF m = 0 /\ IsDigits(text) /\ 1 <= IntOf(text) /\ IntOf(text) <= MaxSplitNumber
           /\ i + 1 <= Len(data) /\ Strip(data[i + 1].text) \in {<<".">>, <<"U+FF0E">>}
        THEN IntOf(text)
        ELSE m

Region(number, tok) ==
    [number |-> number, x |-> tok.left, y |-> tok.top, width |-> tok.width,
     height |-> tok.height, confidence |-> tok.conf]

\* the regions one pass appends to question_regions
RECURSIVE PassRegionsFrom(_, _)
PassRegionsFrom(data, i) ==
    IF i > Len(data) THEN <<>>
    ELSE (IF TokenNumber(data, i) # 0 /\ data[i].conf > ConfThreshold
             /\ data[i].width > MinBoxSize /\ data[i].height > MinBoxSize
          THEN <<Region(TokenNumber(data, i), data[i])>>
          ELSE <<>>)
         \o PassRegionsFrom(data, i + 1)

PassRegions(data) == PassRegionsFrom(data, 1)

\* a mutant of BetterThan: the later candidate always replaces the earlier one
BetterThan_Last(q, kept) == TRUE

\* `q['confidence'] > unique_questions[num]['confidence']`
BetterThan(q, kept) == q.confidence > kept.confidence

\* unique_questions after the candidates cands[1..n]: a sequence in insertion order
RECURSIVE Dedupe(_, _)
Dedupe(cands, n) ==
    IF n = 0 THEN <<>>
    ELSE LET u   == Dedupe(cands, n - 1)
             q   == cands[n]
             pos == {k \in 1..Len(u) : u[k].number = q.number}
         IN  IF pos = {} THEN Append(u, q)
             ELSE LET k == CHOOSE j \in pos : TRUE
                  IN  IF BetterThan(q, u[k]) THEN [u EXCEPT ![k] = q] ELSE u

\* the sort key (q['y'], q['x']), compared as tuples
KeyLeq(a, b) == a.y < b.y \/ (a.y = b.y /\ a.x <= b.x)

\* list.sort(key=...) : stable, so equal keys keep their order
RECURSIVE SortByPosition(_)
SortByPosition(regs) ==
    IF Len(regs) = 0 THEN <<>>
    ELSE LET rest == SortByPosition(SubSeq(regs, 1, Len(regs) - 1))
             q    == regs[Len(regs)]
             n    == Cardinality({k \in 1..Len(rest) : KeyLeq(rest[k], q)})
         IN  SubSeq(rest, 1, n) \o <<q>> \o SubSeq(rest, n + 1, Len(rest))

\* question_regions after the passes ocr[k..], with the early stop
RECURSIVE Candidates(_, _, _)
Candidates(ocr, k, acc) ==
    IF k > Len(ocr) THEN acc
    ELSE LET acc2 == acc \o PassRegions(ocr[k])
         IN  IF Len(acc2) >= MinAnchors THEN acc2 ELSE Candidates(ocr, k + 1, acc2)

\* detect_question_regions_enhanced, given what the OCR passes return
DetectEnhanced(ocr) ==
    LET cands == Candidates(ocr, 1, <<>>)
    IN  SortByPosition(Dedupe(cands, Len(cands)))

\* re.match(r'^\d{1,2}+\.$', text) of mcq1 detect_question_regions
RECURSIVE DetectSimpleFrom(_, _)
DetectSimpleFrom(data, i) ==
    IF i > Len(data) THEN <<>>
    ELSE (IF IsNumberDot(Strip(data[i].text))
          THEN <<[number |-> IntOf(SubSeq(Strip(data[i].text), 1, Len(Strip(data[i].text)) - 1)),
                  x |-> data[i].left, y |-> data[i].top,
                  width |-> data[i].width, height |-> data[i].height]>>
          ELSE <<>>)
         \o DetectSimpleFrom(data, i + 1)

\* detect_question_regions (mcq1), given what the OCR returns
DetectSimple(data) == DetectSimpleFrom(data, 1)

DetInit ==
    /\ pass_idx = 1
    /\ candidates = <<>>
    /\ anchors = <<>>
    /\ dpc = "passes"
    /\ DetFrameIdle

\* one iteration of `for preprocess in preprocessing_methods`
RunPass ==
    /\ dpc = "passes"
    /\ pass_idx <= NumPasses
    /\ \E data \in PassOutputs :
          /\ candidates' = candidates \o PassRegions(data)
          /\ pass_idx' = IF Len(candidates') >= MinAnchors THEN NumPasses + 1
                         ELSE pass_idx + 1
    /\ UNCHANGED <<anchors, dpc>>
    /\ UNCHANGED detframe

\* the deduplication, the sort and the return
DetectReturn ==
    /\ dpc = "passes"
    /\ pass_idx > NumPasses
    /\ anchors' = SortByPosition(Dedupe(candidates, Len(candidates)))
    /\ dpc' = "returned"
    /\ UNCHANGED <<pass_idx, candidates>>
    /\ UNCHANGED detframe

DetNext == RunPass \/ DetectReturn

SpecDetect == DetInit /\ [][DetNext]_vars

\* C8: the returned anchor list holds at most one anchor per question number, that
\* anchor has the highest confidence among the candidates detected for the number in
\* the passes that ran, and the list is sorted by vertical then horizontal position.
C8_AnchorsDedupedSorted ==
    dpc = "returned" =>
        /\ \A i, j \in 1..Len(anchors) : i # j => anchors[i].number # anchors[j].number
        /\ {anchors[i].number : i \in 1..Len(anchors)}
              = {candidates[k].number : k \in 1..Len(candidates)}
        /\ \A i \in 1..Len(anchors) :
              /\ \E k \in 1..Len(candidates) : candidates[k] = anchors[i]
              /\ \A k \in 1..Len(candidates) :
                    candidates[k].number = anchors[i].number
                        => candidates[k].confidence <= anchors[i].confidence
        /\ \A i, j \in 1..Len(anchors) : i < j => KeyLeq(anchors[i], anchors[j])

\* a number was detected twice with different confidence, in an order the sort changes
C8_Witness ==
    /\ dpc = "returned"
    /\ Len(anchors) >= 2
    /\ \E j, k \in 1..Len(candidates) :
          /\ j < k
          /\ candidates[j].number = candidates[k].number
          /\ candidates[j].confidence < candidates[k].confidence
    /\ \E j, k \in 1..Len(candidates) : j < k /\ ~KeyLeq(candidates[j], candidates[k])

(***************************************************************************)
(* Diagram association: find_associated_question (mcq2) and                *)
(* find_closest_question (mcq1)                                            *)
(***************************************************************************)
\* `return None` of the association functions
NoAnchor == -1
\* float('inf')
Infinity == -1

\* `distance < min_distance`
Closer(distance, min_distance) == min_distance = Infinity \/ distance < min_distance

\* `for q in ...: if <side>: distance = ...; if distance < min_distance: ...` from
\* element i on; below = TRUE is the loop on q['y'] > center, FALSE the loop on
\* q['y'] <= center (mcq2); st is [closest, min]
RECURSIVE ScanColumn(_, _, _, _, _)
ScanColumn(qs, i, center, below, st) ==
    IF i > Len(qs) THEN st
    ELSE LET q        == qs[i]
             onSide   == IF below THEN q.y > center ELSE q.y <= center
             distance == IF below THEN q.y - center ELSE center - q.y
         IN  ScanColumn(qs, i + 1, center, below,
                        IF onSide /\ Closer(distance, st.min)
                        THEN [closest |-> q.number, min |-> distance]
                        ELSE st)

\* `if not closest_question` : None and 0 are both false
NotFound(closest_question) == closest_question = NoAnchor \/ closest_question = 0

\* find_associated_question(img_y, img_x, img_h, question_regions, page_width)
FindAssociatedQuestion(img_y, img_x, img_h, regs, page_width) ==
    IF regs = <<>> THEN NoAnchor
    ELSE LET img_center_y    == img_y + (img_h \div 2)
             is_right_column == 2 * img_x > page_width
             same_column     == SelectSeq(regs, LAMBDA q : (2 * q.x > page_width) = is_right_column)
             column_questions == IF same_column = <<>> THEN regs ELSE same_column
             down == ScanColumn(column_questions, 1, img_center_y, TRUE,
                                [closest |-> NoAnchor, min |-> Infinity])
             up   == IF NotFound(down.closest)
                     THEN ScanColumn(column_questions, 1, img_center_y, FALSE, down)
                     ELSE down
         IN  up.closest

\* the loop of find_closest_question from element i on: only q['y'] < image_y counts
RECURSIVE ScanAbove(_, _, _, _)
ScanAbove(qs, i, image_y, st) ==
    IF i > Len(qs) THEN st
    ELSE LET q == qs[i]
         IN  ScanAbove(qs, i + 1, image_y,
                       IF q.y < image_y /\ Closer(image_y - q.y, st.min)
                       THEN [closest |-> q.number, min |-> image_y - q.y]
                       ELSE st)

\* find_closest_question(image_y, image_x, question_regions, page_width)
FindClosestQuestion(image_y, image_x, regs, page_width) ==
    IF regs = <<>> THEN NoAnchor
    ELSE ScanAbove(regs, 1, image_y, [closest |-> NoAnchor, min |-> Infinity]).closest

(***************************************************************************)
(* Diagram extraction over the pages of a document:                        *)
(* extract_diagrams_from_pages (mcq2), extract_images_with_questions (mcq1)*)
(***************************************************************************)
MaxPages == 2
MaxContours == 2
MaxAnchors == 2

\* img.shape[1] of the rendered pages
PageWidth == 1000
\* `if area < 5000` of is_valid_diagram
MinContourArea == 5000
\* `if w < 20 or h < 20` of is_valid_diagram
MinDiagramSide == 20
\* area_threshold=10000 of extract_images_with_questions
AreaThreshold == 10000

\* a contour: its bounding rectangle, contour area, convex hull area and the
\* number of vertices of its polygon approximation
Contour(x, y, w, h, area, hull_area, approx) ==
    [x |-> x, y |-> y, w |-> w, h |-> h, area |-> area, hull_area |-> hull_area,
     approx |-> approx]

Contours == {Contour(100,   0, 120, 100, 9000, 10000, 4),   \* left column, centre y = 50
             Contour(700,   0, 120, 100, 9000, 10000, 4),   \* right column, centre y = 50
             Contour(100, 250, 120, 100, 9000, 10000, 8),   \* left column, centre y = 300
             Contour(700, 250, 120, 100, 9000, 10000, 8),   \* right column, centre y = 300
             Contour(700, 250,  30,  30,  600,   900, 4)}   \* too small to be a diagram

\* str(uuid.uuid4()).replace('-', '')[:8] at the n-th call of a pass: a token that
\* no other call of the pass returns
Uuid4(n) == <<"uuid4", n>>

\* is_valid_diagram(contour, w, h, area)
IsValidDiagram(c) ==
    /\ ~(c.area < MinContourArea)
    /\ c.h > 0
    /\ ~(c.w > 10 * c.h \/ 10 * c.w < c.h)
    /\ ~(c.w < MinDiagramSide \/ c.h < MinDiagramSide)
    /\ c.hull_area > 0
    /\ ~(10 * c.area < 3 * c.hull_area)

\* whether the extraction looks for the question of a contour
Qualifies(v, c) ==
    IF v = "mcq2" THEN IsValidDiagram(c) ELSE c.w * c.h > AreaThreshold

\* the question number the extraction associates with a contour
Associate(v, c, regs) ==
    IF v = "mcq2"
    THEN FindAssociatedQuestion(c.y, c.x, c.h, regs, PageWidth)
    ELSE FindClosestQuestion(c.y + (c.h \div 2), c.x + (c.w \div 2), regs, PageWidth)

\* a mutant of Accepted: a diagram without a question is stored all the same
Accepted_Always(question_num) == TRUE

\* `if question_num:`
Accepted(question_num) == question_num # NoAnchor /\ question_num # 0

\* a mutant of ImagePath: the mcq2 file name has no suffix
ImagePath_NoSuffix(v, question_num, existing_count, uuid) ==
    IF v = "mcq2"
    THEN [q |-> question_num, tag |-> <<>>]
    ELSE [q |-> question_num, tag |-> <<uuid>>]

\* the path of the crop: q{num}_diagram{suffix}.png (mcq2, suffix from the number of
\* diagrams the question owns), question_{num}_image_{uuid}.png (mcq1)
ImagePath(v, question_num, existing_count, uuid) ==
    IF v = "mcq2"
    THEN [q |-> question_num, tag |-> IF existing_count > 0 THEN <<"_", existing_count>> ELSE <<>>]
    ELSE [q |-> question_num, tag |-> <<uuid>>]

\* results[question_num].append(image_path), creating the list when missing
AppendResult(res, question_num, image_path) ==
    IF question_num \in DOMAIN res
    THEN [res EXCEPT ![question_num] = Append(@, image_path)]
    ELSE [k \in DOMAIN res \cup {question_num} |->
             IF k = question_num THEN <<image_path>> ELSE res[k]]

\* what the detection of the variant returns for the OCR data of a page
DetectPageRegions(v, data) ==
    IF v = "mcq2" THEN DetectEnhanced(<<data, <<>>, <<>>>>) ELSE DetectSimple(data)

AssocInit ==
    /\ variant \in {"mcq1", "mcq2"}
    /\ page_idx = 0
    /\ question_regions = <<>>
    /\ cnt_count = 0
    /\ contour = <<>>
    /\ chosen = NoAnchor
    /\ results = <<>>
    /\ written = <<>>
    /\ epc = "pages"
    /\ AssocFrameIdle

\* the head of `for page_idx, page_path in enumerate(page_paths)`: the page is read
\* and its question regions are detected
StartPage ==
    /\ epc = "pages"
    /\ page_idx < MaxPages
    /\ page_idx' = page_idx + 1
    /\ \E data \in TokenSeqs(MaxAnchors) :
          question_regions' = DetectPageRegions(variant, data)
    /\ UNCHANGED <<variant, cnt_count, contour, chosen, results, written, epc>>
    /\ UNCHANGED assocframe

\* one iteration of `for cnt in contours`
ProcessContour ==
    /\ epc = "pages"
    /\ page_idx >= 1
    /\ cnt_count < MaxContours
    /\ cnt_count' = cnt_count + 1
    /\ \E c \in Contours :
          LET question_num == IF Qualifies(variant, c)
                              THEN Associate(variant, c, question_regions)
                              ELSE NoAnchor
              existing     == IF question_num \in DOMAIN results
                              THEN Len(results[question_num]) ELSE 0
              image_path   == ImagePath(variant, question_num, existing, Uuid4(cnt_count + 1))
          IN  /\ contour' = c
              /\ chosen' = question_num
              /\ IF Qualifies(variant, c) /\ Accepted(question_num)
                 THEN /\ written' = Append(written, [path |-> image_path, page |-> page_idx,
                                                     cnt |-> cnt_count + 1])
                      /\ results' = AppendResult(results, question_num, image_path)
                 ELSE UNCHANGED <<written, results>>
    /\ UNCHANGED <<variant, page_idx, question_regions, epc>>
    /\ UNCHANGED assocframe

\* `return results` after the last page
ExtractReturn ==
    /\ epc = "pages"
    /\ epc' = "returned"
    /\ UNCHANGED <<variant, page_idx, question_regions, cnt_count, contour, chosen,
                   results, written>>
    /\ UNCHANGED assocframe

AssocNext == StartPage \/ ProcessContour \/ ExtractReturn

SpecAssoc == AssocInit /\ [][AssocNext]_vars

\* the vertical centre of a contour and the column test of the page
CentreY(c) == c.y + (c.h \div 2)
InRightColumn(x) == 2 * x > PageWidth

\* the indices of the anchors the description takes as candidates for a contour:
\* the anchors of its column, all the anchors when its column has none
CandidateAnchors(c, regs) ==
    LET same == {i \in 1..Len(regs) : InRightColumn(regs[i].x) = InRightColumn(c.x)}
    IN  IF same = {} THEN 1..Len(regs) ELSE same

\* the numbers the description allows for a contour: the nearest candidate below
\* the centre when one lies below, the nearest candidate above otherwise
NearestBelowElseAbove(c, regs) ==
    LET cands == CandidateAnchors(c, regs)
        below == {i \in cands : regs[i].y > CentreY(c)}
    IN  IF below # {}
        THEN {regs[i].number : i \in {b \in below : \A j \in below : regs[b].y <= regs[j].y}}
        ELSE {regs[i].number : i \in {a \in cands : \A j \in cands : regs[a].y >= regs[j].y}}

\* a step that associates a qualifying contour on a page with anchors
AssociationStep ==
    /\ cnt_count' = cnt_count + 1
    /\ Qualifies(variant, contour')
    /\ Len(question_regions) > 0

\* C5: for every diagram and every non-empty candidate anchor set, the association
\* selects the nearest candidate below the diagram's vertical centre if any candidate
\* lies below it, the nearest candidate above only when none lies below (in both
\* variants: find_associated_question and find_closest_question).
C5_NearestBelowThenAbove ==
    [][AssociationStep => chosen' \in NearestBelowElseAbove(contour', question_regions)]_vars

\* C6: a diagram strictly in the right column is never given a left-column anchor
\* while the page has a right-column anchor (in both variants).
C6_RightColumnPreferred ==
    [][(/\ AssociationStep
        /\ InRightColumn(contour'.x)
        /\ \E i \in 1..Len(question_regions) : InRightColumn(question_regions[i].x)
        /\ \E i \in 1..Len(question_regions) : ~InRightColumn(question_regions[i].x))
          => \/ chosen' = NoAnchor
             \/ \E i \in 1..Len(question_regions) :
                   /\ InRightColumn(question_regions[i].x)
                   /\ question_regions[i].number = chosen']_vars

\* the crops written for question k, in the order of writing
WrittenFor(k) == SelectSeq(written, LAMBDA w : w.path.q = k)

\* C7: every key of the question-to-image map is the number of an anchor detected on
\* the page of each diagram stored under it, the map holds exactly the crops that
\* were written, and a diagram the association gives no anchor is neither written
\* nor added to the map.
C7_KeysAreAnchorsOfThePage ==
    variant \in {"mcq1", "mcq2"} =>
        /\ \A i \in 1..Len(written) :
              written[i].page = page_idx
                 => \E r \in 1..Len(question_regions) :
                       question_regions[r].number = written[i].path.q
        /\ DOMAIN results = {written[i].path.q : i \in 1..Len(written)}
        /\ \A k \in DOMAIN results :
              /\ Len(results[k]) = Len(WrittenFor(k))
              /\ \A n \in 1..Len(results[k]) : results[k][n] = WrittenFor(k)[n].path
        /\ (cnt_count >= 1 /\ ~Accepted(chosen))
              => \A i \in 1..Len(written) : written[i].cnt # cnt_count

\* the extraction returned a map with a diagram in it after it discarded a
\* qualifying diagram that no anchor claimed
C7_Witness ==
    /\ epc = "returned"
    /\ Len(written) >= 1
    /\ cnt_count >= 2
    /\ Qualifies(variant, contour)
    /\ chosen = NoAnchor

(***************************************************************************)
(* Passage pagination: split_passage_content and create_passage_slides     *)
(* (passage_converter.py)                                                  *)
(*                                                                         *)
(* A piece of text is kept by its length and by the two tests the code     *)
(* makes on its characters: whether strip() leaves nothing, and whether    *)
(* its last character is ']'.  A chunk is the sequence of the sentences    *)
(* it joins, by index.                                                     *)
(***************************************************************************)
MaxFrags == 4

\* self.chars_per_slide = 725 of __init__
DefaultCharsPerSlide == 725
\* default=800 of --chars-per-slide
CliCharsPerSlide == 800
\* `self.chars_per_slide = 725` in the loop of split_passage_content
ContinuationBudget == 725
\* `self.chars_per_slide = 550` in the loop of split_passage_content
FirstChunkBudget == 550

\* an element of content.split('.'): the text between two periods
Fragment(len, blank, bracket) == [len |-> len, blank |-> blank, bracket |-> bracket]

FragmentTexts == {Fragment(549, FALSE, FALSE),   \* a sentence of 550 characters
                  Fragment(399, FALSE, FALSE),   \* a sentence of 400 characters
                  Fragment(174, FALSE, FALSE),   \* a sentence of 175 characters
                  Fragment(799, FALSE, FALSE),   \* a sentence longer than both budgets
                  Fragment(100, FALSE, TRUE),    \* text ending with ']'
                  Fragment(1, TRUE, FALSE),      \* a space between two periods
                  Fragment(0, TRUE, FALSE)}      \* nothing: after the last period

\* the passage bodies: content.split('.') always returns at least one element
Contents == UNION {[1..n -> FragmentTexts] : n \in 1..MaxFrags}

\* len(content): the fragments and the periods between them
RECURSIVE SumLen(_, _)
SumLen(seq, i) == IF i > Len(seq) THEN 0 ELSE seq[i].len + SumLen(seq, i + 1)
ContentLength(frags) == SumLen(frags, 1) + (Len(frags) - 1)

\* [s + '.' if s[-1] not in ('.', ']') else s for s in [s for s in sentences if s.strip()]]
\* from fragment i on; a sentence keeps the index of its fragment
RECURSIVE SentencesFrom(_, _)
SentencesFrom(frags, i) ==
    IF i > Len(frags) THEN <<>>
    ELSE IF frags[i].blank THEN SentencesFrom(frags, i + 1)
    ELSE <<[frag |-> i,
            len  |-> IF frags[i].bracket THEN frags[i].len ELSE frags[i].len + 1]>>
            \o SentencesFrom(frags, i + 1)

\* a mutant of BudgetInForce: the first chunk gets the continuation budget
BudgetInForce_Flat(closed_chunks) == ContinuationBudget

\* self.chars_per_slide after the two assignments at the head of the loop body
BudgetInForce(closed_chunks) ==
    IF closed_chunks = 0 THEN FirstChunkBudget ELSE ContinuationBudget

\* a mutant of ChunkCloses: the chunk is closed once it is over the budget
ChunkCloses_AfterOverflow(length, sentence_len, budget, chunk) ==
    length > budget /\ chunk # <<>>

\* `if current_length + len(sentence) > self.chars_per_slide and current_chunk`
ChunkCloses(length, sentence_len, budget, chunk) ==
    length + sentence_len > budget /\ chunk # <<>>

SplitInit ==
    /\ fragments \in Contents
    /\ sentences = <<>>
    /\ sent_idx = 0
    /\ slide_contents = <<>>
    /\ current_chunk = <<>>
    /\ current_length = 0
    /\ chars_per_slide \in {DefaultCharsPerSlide, CliCharsPerSlide}
    /\ configured_budget = chars_per_slide
    /\ created_slides = <<>>
    /\ ppc = "split"
    /\ SplitFrameIdle

\* the two statements that build `sentences`, and the three initialisations
SplitSentences ==
    /\ ppc = "split"
    /\ sentences' = SentencesFrom(fragments, 1)
    /\ sent_idx' = 1
    /\ slide_contents' = <<>>
    /\ current_chunk' = <<>>
    /\ current_length' = 0
    /\ ppc' = "loop"
    /\ UNCHANGED <<fragments, chars_per_slide, created_slides>>
    /\ UNCHANGED configured_budget
    /\ UNCHANGED splitframe

\* one iteration of `for sentence in sentences`
AppendSentence ==
    /\ ppc = "loop"
    /\ sent_idx <= Len(sentences)
    /\ LET budget == BudgetInForce(Len(slide_contents))
           len    == sentences[sent_idx].len
       IN  /\ chars_per_slide' = budget
           /\ IF ChunkCloses(current_length, len, budget, current_chunk)
              THEN /\ slide_contents' = Append(slide_contents, current_chunk)
                   /\ current_chunk' = <<sent_idx>>
                   /\ current_length' = len
              ELSE /\ current_chunk' = Append(current_chunk, sent_idx)
                   /\ current_length' = current_length + len
                   /\ UNCHANGED slide_contents
    /\ sent_idx' = sent_idx + 1
    /\ UNCHANGED <<fragments, sentences, created_slides, ppc>>
    /\ UNCHANGED configured_budget
    /\ UNCHANGED splitframe

\* `if current_chunk: slide_contents.append(...)` and `return slide_contents`
SplitReturn ==
    /\ ppc = "loop"
    /\ sent_idx > Len(sentences)
    /\ slide_contents' = IF current_chunk # <<>>
                         THEN Append(slide_contents, current_chunk)
                         ELSE slide_contents
    /\ ppc' = "returned"
    /\ UNCHANGED <<fragments, sentences, sent_idx, current_chunk, current_length,
                   chars_per_slide, created_slides>>
    /\ UNCHANGED configured_budget
    /\ UNCHANGED splitframe

\* the loop of create_passage_slides: one slide for each chunk, titled on the first
CreatePassageSlides ==
    /\ ppc = "returned"
    /\ created_slides' = [i \in 1..Len(slide_contents) |->
                             [title        |-> i = 1,
                              content      |-> slide_contents[i],
                              is_last_slide |-> i = Len(slide_contents)]]
    /\ ppc' = "slides"
    /\ UNCHANGED <<fragments, sentences, sent_idx, slide_contents, current_chunk,
                   current_length, chars_per_slide>>
    /\ UNCHANGED configured_budget
    /\ UNCHANGED splitframe

SplitNext == SplitSentences \/ AppendSentence \/ SplitReturn \/ CreatePassageSlides

SpecSplit == SplitInit /\ [][SplitNext]_vars

\* the length of a chunk: the sum of the lengths of its sentences
RECURSIVE ChunkLength(_, _)
ChunkLength(chunk, i) ==
    IF i > Len(chunk) THEN 0 ELSE sentences[chunk[i]].len + ChunkLength(chunk, i + 1)

\* the chunks one after the other
RECURSIVE Flatten(_, _)
Flatten(chunks, i) == IF i > Len(chunks) THEN <<>> ELSE chunks[i] \o Flatten(chunks, i + 1)

\* the budget the description gives to the i-th chunk
BudgetOfChunk(i) == IF i = 1 THEN FirstChunkBudget ELSE ContinuationBudget

\* every chunk is a run of whole sentences, and every sentence is in one chunk
WholeSentences(chunks) ==
    /\ Flatten(chunks, 1) = [i \in 1..Len(sentences) |-> i]
    /\ \A c \in 1..Len(chunks) : chunks[c] # <<>>

\* C9: the chunks are runs of consecutive whole sentences in source order, every
\* sentence lies in exactly one chunk, a chunk is closed exactly when the next
\* sentence would take it over the budget in force (550 for the first chunk, 725 for
\* the others), so a chunk of more than one sentence is no longer than its budget.
C9_ChunksAreWholeSentences ==
    ppc \in {"returned", "slides"} =>
        /\ WholeSentences(slide_contents)
        /\ \A c \in 1..Len(slide_contents) :
              /\ Len(slide_contents[c]) > 1
                    => ChunkLength(slide_contents[c], 1) <= BudgetOfChunk(c)
              /\ c < Len(slide_contents)
                    => ChunkLength(slide_contents[c], 1)
                          + sentences[slide_contents[c + 1][1]].len > BudgetOfChunk(c)

\* a first chunk of several sentences was closed, and a sentence longer than the
\* budget got a chunk of its own
C9_Witness ==
    /\ ppc = "returned"
    /\ Len(slide_contents) >= 3
    /\ Len(slide_contents[1]) >= 2
    /\ \E c \in 2..Len(slide_contents) :
          ChunkLength(slide_contents[c], 1) > ContinuationBudget

\* ceil(a / b) for b > 0
Ceil(a, b) == IF a <= 0 THEN 0 ELSE ((a - 1) \div b) + 1

\* the slides of a passage after its first one
ContinuationSlides == Len(created_slides) - 1

\* the total length of the sentences the split keeps
SentencesLength == SumLen(sentences, 1)

\* the slides carry the chunks, and the chunks are whole sentences
SlidesCarryWholeSentences ==
    /\ WholeSentences(slide_contents)
    /\ Len(created_slides) = Len(slide_contents)
    /\ \A i \in 1..Len(created_slides) : created_slides[i].content = slide_contents[i]

\* C10 as stated: for a body of length L above the first-chunk budget the number of
\* continuation slides equals ceil((L - 550) / 725), and no sentence is split.
C10_ContinuationSlidesEqualCeil ==
    (ppc = "slides" /\ ContentLength(fragments) > FirstChunkBudget) =>
        /\ ContinuationSlides
              = Ceil(ContentLength(fragments) - FirstChunkBudget, ContinuationBudget)
        /\ SlidesCarryWholeSentences

\* C10 amended: when no sentence is longer than the first-chunk budget and the
\* sentences total S > 550 characters, the number of continuation slides is at
\* least ceil((S - 550) / 725) and at most the number of sentences less one, and no
\* sentence is split.
C10_ContinuationSlidesAtLeastCeil ==
    (/\ ppc = "slides"
     /\ SentencesLength > FirstChunkBudget
     /\ \A i \in 1..Len(sentences) : sentences[i].len <= FirstChunkBudget) =>
        /\ ContinuationSlides
              >= Ceil(SentencesLength - FirstChunkBudget, ContinuationBudget)
        /\ ContinuationSlides <= Len(sentences) - 1
        /\ SlidesCarryWholeSentences

\* three sentences of 400 characters: two continuation slides where the quotient
\* gives one
C10_Witness ==
    /\ ppc = "slides"
    /\ SentencesLength > FirstChunkBudget
    /\ \A i \in 1..Len(sentences) : sentences[i].len <= FirstChunkBudget
    /\ ContinuationSlides = 2
    /\ Ceil(SentencesLength - FirstChunkBudget, ContinuationBudget) = 1

(***************************************************************************)
(* Passage conversion: WordToPowerPointConverter.convert and the slide     *)
(* builders it calls (passage_converter.py)                                *)
(***************************************************************************)
MaxPassages == 2
MaxQuestions == 2
\* pixel width and height of a diagram image are drawn from 1..MaxPixels
MaxPixels == 27
\* the text of a passage document has at most MaxContentLines lines
MaxContentLines == 6

\* split_passage_content as a function of content.split('.'): the loop from
\* sentence i on, with slide_contents, current_chunk and current_length
RECURSIVE PackFrom(_, _, _, _, _)
PackFrom(sents, i, contents, chunk, length) ==
    IF i > Len(sents)
    THEN IF chunk # <<>> THEN Append(contents, chunk) ELSE contents
    ELSE IF ChunkCloses(length, sents[i].len, BudgetInForce(Len(contents)), chunk)
         THEN PackFrom(sents, i + 1, Append(contents, chunk), <<i>>, sents[i].len)
         ELSE PackFrom(sents, i + 1, contents, Append(chunk, i), length + sents[i].len)

SplitPassageContent(frags) == PackFrom(SentencesFrom(frags, 1), 1, <<>>, <<>>, 0)

\* the passage bodies of the documents, as content.split('.')
PassageBodies ==
    {<<Fragment(0, TRUE, FALSE)>>,                                  \* an empty body
     <<Fragment(399, FALSE, FALSE), Fragment(0, TRUE, FALSE)>>,     \* one sentence
     <<Fragment(399, FALSE, FALSE), Fragment(399, FALSE, FALSE),
       Fragment(0, TRUE, FALSE)>>,                                  \* two chunks
     <<Fragment(399, FALSE, FALSE), Fragment(399, FALSE, FALSE),
       Fragment(399, FALSE, FALSE), Fragment(0, TRUE, FALSE)>>}     \* three chunks

\* sections['directions'] after strip()
DirectionTexts == {"", "DIRECTIONS FOR QUESTION 1 to 5: Read the passage."}

\* an element of sections['passages']: 'number', 'content', 'questions'
PassageRecords ==
    {[number |-> "PASSAGE - I", content |-> b, questions |-> [q \in 1..n |-> q]] :
        b \in PassageBodies, n \in 0..MaxQuestions}

\* what parse_document_content may return
SectionsSet ==
    {[directions |-> d, passages |-> ps] :
        d \in DirectionTexts,
        ps \in UNION {[1..n -> PassageRecords] : n \in 0..MaxPassages}}

\* create_title_slide: the logo, the two texts, then the formatting with its borders
CreateTitleSlide ==
    [kind |-> "title", passage |-> 0, item |-> 0, directions |-> FALSE,
     added |-> <<"logo", "title", "border", "border">>]

\* create_content_slide(num, prs, directions, title, content, is_passage=True,
\* is_last_passage_slide) for chunk `item` of passage `psg`: what it adds to the
\* slide, in the order it adds it
CreateContentSlide(num, directions, title, psg, item, is_last_passage_slide) ==
    [kind       |-> "passage",
     passage    |-> psg,
     item       |-> item,
     directions |-> title # "" /\ num = 0 /\ directions # "",
     added      |-> <<"logo">>
                    \o (IF title # "" THEN <<"title">> ELSE <<>>)
                    \o <<"content">>
                    \o (IF ~is_last_passage_slide THEN <<"Continued">> ELSE <<>>)
                    \o <<"border", "border">>]

\* create_questions_slide(prs, question_group) for question group `item`
CreateQuestionsSlide(psg, item) ==
    [kind |-> "questions", passage |-> psg, item |-> item, directions |-> FALSE,
     added |-> <<"logo", "content", "border", "border">>]

\* a mutant of PassageSlidesOf: no slide is told it is the last one
PassageSlidesOf_NeverLast(psg, passage, directions) ==
    LET slide_contents_ == SplitPassageContent(passage.content)
    IN  [i \in 1..Len(slide_contents_) |->
            CreateContentSlide(i - 1, directions,
                               IF i = 1 THEN passage.number ELSE "",
                               psg, i, FALSE)]

\* create_passage_slides(prs, passage, directions): the slides it adds
PassageSlidesOf(psg, passage, directions) ==
    LET slide_contents_ == SplitPassageContent(passage.content)
    IN  [i \in 1..Len(slide_contents_) |->
            CreateContentSlide(i - 1, directions,
                               IF i = 1 THEN passage.number ELSE "",
                               psg, i, i = Len(slide_contents_))]

PassInit ==
    /\ readable \in BOOLEAN
    /\ sections \in SectionsSet
    /\ psg_idx = 0
    /\ pq_idx = 0
    /\ prs_slides = <<>>
    /\ presult = None
    /\ cpc = "start"
    /\ PassFrameIdle

\* convert up to the loop: the document is read (`return False` when it cannot be),
\* parsed, and the title slide is created
PassageConvertBegin ==
    /\ cpc = "start"
    /\ IF ~readable
       THEN /\ presult' = <<"False">>
            /\ cpc' = "done"
            /\ UNCHANGED <<prs_slides, psg_idx>>
       ELSE /\ prs_slides' = <<CreateTitleSlide>>
            /\ psg_idx' = 1
            /\ cpc' = "passages"
            /\ UNCHANGED presult
    /\ UNCHANGED <<readable, sections, pq_idx>>
    /\ UNCHANGED passframe

\* `self.create_passage_slides(prs, passage, sections['directions'])`
PassageSlides ==
    /\ cpc = "passages"
    /\ psg_idx <= Len(sections.passages)
    /\ prs_slides' = prs_slides
          \o PassageSlidesOf(psg_idx, sections.passages[psg_idx], sections.directions)
    /\ pq_idx' = 1
    /\ cpc' = "questions"
    /\ UNCHANGED <<readable, sections, psg_idx, presult>>
    /\ UNCHANGED passframe

\* one iteration of `for i, question_group in enumerate(question_groups)`
PassageQuestionsSlide ==
    /\ cpc = "questions"
    /\ pq_idx <= Len(sections.passages[psg_idx].questions)
    /\ prs_slides' = Append(prs_slides, CreateQuestionsSlide(psg_idx, pq_idx))
    /\ pq_idx' = pq_idx + 1
    /\ UNCHANGED <<readable, sections, psg_idx, presult, cpc>>
    /\ UNCHANGED passframe

\* the question groups of the passage are done: the next passage
PassageLoopNext ==
    /\ cpc = "questions"
    /\ pq_idx > Len(sections.passages[psg_idx].questions)
    /\ psg_idx' = psg_idx + 1
    /\ cpc' = "passages"
    /\ UNCHANGED <<readable, sections, pq_idx, prs_slides, presult>>
    /\ UNCHANGED passframe

\* `prs.save(output_pptx_path)`: True, or False when the save raises
PassageSave ==
    /\ cpc = "passages"
    /\ psg_idx > Len(sections.passages)
    /\ \E saved \in BOOLEAN : presult' = IF saved THEN <<"True">> ELSE <<"False">>
    /\ cpc' = "done"
    /\ UNCHANGED <<readable, sections, psg_idx, pq_idx, prs_slides>>
    /\ UNCHANGED passframe

PassNext ==
    \/ PassageConvertBegin
    \/ PassageSlides
    \/ PassageQuestionsSlide
    \/ PassageLoopNext
    \/ PassageSave

SpecPassage == PassInit /\ [][PassNext]_vars

\* the slides of the deck that carry chunks of passage psg, in deck order
SlidesOfPassage(psg) ==
    SelectSeq(prs_slides, LAMBDA sl : sl.kind = "passage" /\ sl.passage = psg)

\* whether a slide carries the footer
HasContinued(sl) == \E a \in 1..Len(sl.added) : sl.added[a] = "Continued"

\* the passages whose slides are all in the deck
PassagesLaidOut ==
    {psg \in 1..Len(sections.passages) :
        \/ psg < psg_idx
        \/ psg = psg_idx /\ cpc = "questions"}

\* C11: of the k >= 1 slides of a passage the first k-1 carry the "Continued" footer
\* and the last carries none (so a passage of one slide has none), and no slide of
\* questions, nor the title slide, carries it.
C11_ContinuedOnAllButLast ==
    cpc \in {"passages", "questions", "done"} =>
        /\ \A psg \in PassagesLaidOut :
              LET ps == SlidesOfPassage(psg)
              IN  /\ Len(ps) = Len(SplitPassageContent(sections.passages[psg].content))
                  /\ \A i \in 1..Len(ps) : HasContinued(ps[i]) <=> i < Len(ps)
        /\ \A n \in 1..Len(prs_slides) :
              prs_slides[n].kind # "passage" => ~HasContinued(prs_slides[n])

\* the deck holds a passage of three slides, a passage of one slide and a slide of
\* questions
C11_Witness ==
    /\ cpc = "done"
    /\ \E psg \in 1..Len(sections.passages) : Len(SlidesOfPassage(psg)) = 3
    /\ \E psg \in 1..Len(sections.passages) : Len(SlidesOfPassage(psg)) = 1
    /\ \E n \in 1..Len(prs_slides) : prs_slides[n].kind = "questions"

(***************************************************************************)
(* The decks of the arrangement variant and of the passage variant         *)
(***************************************************************************)
\* a conversion of either variant
DecksInit == Mcq2Init \/ PassInit

DecksNext == Mcq2Next \/ PassNext

SpecDecks == DecksInit /\ [][DecksNext]_vars

\* whether a Question record has arrangement text
HasArrangementText(q) ==
    \E n \in 1..Len(q.arrangement) : q.arrangement[n] \notin {"None", " ", "\n"}

\* the place in the deck the description gives to the slide of the i-th question:
\* after the slides of the questions before it and after its own arrangement slide
SlidePosition(i) ==
    i + Cardinality({j \in 1..i : HasArrangementText(content_blocks[j])})

\* the questions of passage psg have their slides, one each, in order
QuestionSlidesOfPassage(psg) ==
    SelectSeq(prs_slides, LAMBDA sl : sl.kind = "questions" /\ sl.passage = psg)

\* the deck is ordered by passage, and in a passage the chunks come before the questions
DeckInSourceOrder ==
    \A m, n \in 1..Len(prs_slides) :
        (m < n /\ prs_slides[m].kind # "title") =>
            /\ prs_slides[n].kind # "title"
            /\ prs_slides[m].passage <= prs_slides[n].passage
            /\ prs_slides[m].passage = prs_slides[n].passage =>
                  /\ prs_slides[m].kind = "questions" => prs_slides[n].kind = "questions"
                  /\ prs_slides[m].kind = prs_slides[n].kind
                        => prs_slides[m].item < prs_slides[n].item

RECURSIVE SplitNewline(_, _)
SplitNewline(text, cur) ==
    IF text = <<>> THEN (IF cur = <<>> THEN <<>> ELSE <<cur>>)
    ELSE IF text[1] = "\n"
         THEN (IF cur = <<>> THEN <<>> ELSE <<cur>>) \o SplitNewline(Tail(text), <<>>)
         ELSE SplitNewline(Tail(text), Append(cur, text[1]))

\* the lines of the document strictly between the marker of the record before
\* record n and the marker of record n, as the parser cleans them
LinesBeforeQuestion(n) ==
    LET hi == NthMarker(doc, n)
        lo == IF n = 1 THEN 0 ELSE NthMarker(doc, n - 1)
    IN  {Strip(doc[k]) : k \in (lo + 1)..(hi - 1)}
           \cup {Strip(RemoveBold(Strip(doc[k]))) : k \in (lo + 1)..(hi - 1)}

\* C13: the arrangement attached to a Question consists only of lines that come
\* strictly before the marker line of that question and after the marker line of
\* the question before it.
C13_ArrangementPrecedesQuestion ==
    \A n \in 1..Len(content_blocks) :
        content_blocks[n].arrangement # None =>
            LET ls == SplitNewline(content_blocks[n].arrangement, <<>>)
            IN  \A i \in 1..Len(ls) : ls[i] \in LinesBeforeQuestion(n)

(***************************************************************************)
(* Conversion requests and the scratch directories: ConverterManager       *)
(* .convert around MCQConverter.extract_mcq_images (mcq1) and              *)
(* extract_images_from_document (mcq2)                                     *)
(***************************************************************************)
\* the requests in flight on the server
Requests == {"r1", "r2"}

\* settings.MEDIA_ROOT/extraction, and the directories mcq1 makes in it
ExtractionDir == "media/extraction"
Mcq1TempDir == "media/extraction/temp"
Mcq1PagesDir == "media/extraction/pages"
Mcq1ImagesDir == "media/extraction/extracted_images"
\* dirname(doc_path) is MEDIA_ROOT/inputs for every job (upload_to_input)
Mcq2TempDir == "media/inputs/temp_processing"
Mcq2PagesDir == "media/inputs/temp_processing/pages"
Mcq2DiagramsDir == "media/inputs/extracted_diagrams"

ScratchDirs == {ExtractionDir, Mcq1TempDir, Mcq1PagesDir, Mcq1ImagesDir,
                Mcq2TempDir, Mcq2PagesDir, Mcq2DiagramsDir}

\* the directories of a tree
Under(root) ==
    IF root = ExtractionDir THEN {ExtractionDir, Mcq1TempDir, Mcq1PagesDir, Mcq1ImagesDir}
    ELSE IF root = Mcq2TempDir THEN {Mcq2TempDir, Mcq2PagesDir}
    ELSE {root}

\* the directories os.makedirs(d, exist_ok=True) makes sure of
WithParents(d) == {root \in ScratchDirs : d \in Under(root)}

\* the directories a template type works in
TempDirOf(v) == IF v = "mcq1" THEN Mcq1TempDir ELSE Mcq2TempDir
PagesDirOf(v) == IF v = "mcq1" THEN Mcq1PagesDir ELSE Mcq2PagesDir
CropsDirOf(v) == IF v = "mcq1" THEN Mcq1ImagesDir ELSE Mcq2DiagramsDir

File(dir, name, by) == [dir |-> dir, name |-> name, by |-> by]

\* Path(docx_path).stem + ".pdf": the upload name carries a uuid, one per job
PdfOf(r) == File(TempDirOf(reqs[r].variant), <<"doc", r, ".pdf">>, r)
\* page_1.png
PageOf(r) == File(PagesDirOf(reqs[r].variant), <<"page_1.png">>, r)
\* question_1_image_{uuid}.png (mcq1), q1_diagram.png (mcq2)
CropOf(r) ==
    File(CropsDirOf(reqs[r].variant),
         IF reqs[r].variant = "mcq1" THEN <<"question_1_image_", r, ".png">>
         ELSE <<"q1_diagram.png">>,
         r)

\* files after shutil.rmtree(root) / directories after it
FilesWithout(root) == {f \in files : f.dir \notin Under(root)}
DirsWithout(root) == dirs \ Under(root)

\* files after a file is written (a file of the same path is replaced)
FilesWith(f) == {g \in files : ~(g.dir = f.dir /\ g.name = f.name)} \cup {f}

\* whether a file of that path is there, whoever wrote it
PathExists(f) == \E g \in files : g.dir = f.dir /\ g.name = f.name

Rasterizes(v) == v \in {"mcq1", "mcq2"}

\* the message of the EnvironmentError of convert_docx_to_pdf_python
RendererMissing == <<"LibreOffice (`soffice`) not found. Please install it and ensure it's in your PATH.">>
FileMissing == <<"[Errno 2] No such file or directory">>
SaveFailed == <<"[Errno 13] Permission denied">>

\* reqs with the fields of request r replaced
Moved(r, pc_, status_, error_) ==
    [reqs EXCEPT ![r].pc = pc_, ![r].status = status_, ![r].error = error_]
At(r, pc_) == [reqs EXCEPT ![r].pc = pc_]

\* an exception in a stage of request r: mcq1 lets it reach ConverterManager.convert,
\* extract_images_from_document (mcq2) catches it, prints it and returns {}
Raised(r, message) ==
    IF reqs[r].variant = "mcq1"
    THEN [reqs EXCEPT ![r].pc = "except", ![r].error = message]
    ELSE [reqs EXCEPT ![r].pc = "rmtmp", ![r].images = FALSE]

ScrInit ==
    /\ renderer \in BOOLEAN
    /\ reqs \in [Requests -> {[variant |-> v, pc |-> p, status |-> "pending",
                               error |-> None, images |-> FALSE, output |-> FALSE,
                               after |-> {}] :
                                 v \in {"mcq1", "mcq2", "passage"}, p \in {"pending", "absent"}}]
    /\ \E r \in Requests : reqs[r].pc = "pending"
    /\ dirs = {}
    /\ files = {}
    /\ ScrFrameIdle

\* ConverterManager.convert: status 'processing', the converter is called and comes
\* to its extraction (mcq1, mcq2) or to its slides (the types that do not rasterize)
ScrStart(r) ==
    /\ reqs[r].pc = "pending"
    /\ reqs' = [reqs EXCEPT ![r].pc = IF reqs[r].variant = "mcq1" THEN "clear"
                                      ELSE IF reqs[r].variant = "mcq2" THEN "mkdir"
                                      ELSE "build",
                            ![r].status = "processing",
                            ![r].after = {o \in Requests : reqs[o].pc = "done"}]
    /\ UNCHANGED <<renderer, dirs, files>>
    /\ UNCHANGED scrframe

\* extract_mcq_images: `if os.path.exists(output_root): shutil.rmtree(output_root)`
\* and os.makedirs(tmpdir)
ScrClear(r) ==
    /\ reqs[r].pc = "clear"
    /\ dirs' = DirsWithout(ExtractionDir) \cup WithParents(Mcq1TempDir)
    /\ files' = FilesWithout(ExtractionDir)
    /\ reqs' = At(r, "pdf")
    /\ UNCHANGED renderer
    /\ UNCHANGED scrframe

\* extract_images_from_document: os.makedirs(tmpdir, exist_ok=True)
ScrMakeTemp(r) ==
    /\ reqs[r].pc = "mkdir"
    /\ dirs' = dirs \cup WithParents(Mcq2TempDir)
    /\ reqs' = At(r, "pdf")
    /\ UNCHANGED <<renderer, files>>
    /\ UNCHANGED scrframe

\* convert_docx_to_pdf / convert_docx_to_pdf_python
ScrPdf(r) ==
    /\ reqs[r].pc = "pdf"
    /\ dirs' = dirs \cup WithParents(TempDirOf(reqs[r].variant))
    /\ IF renderer
       THEN /\ files' = FilesWith(PdfOf(r))
            /\ reqs' = At(r, "pages")
       ELSE /\ reqs' = Raised(r, RendererMissing)
            /\ UNCHANGED files
    /\ UNCHANGED renderer
    /\ UNCHANGED scrframe

\* convert_pdf_to_images: the PDF is read and page_1.png is written
ScrPages(r) ==
    /\ reqs[r].pc = "pages"
    /\ dirs' = dirs \cup WithParents(PagesDirOf(reqs[r].variant))
    /\ IF PathExists(PdfOf(r))
       THEN /\ files' = FilesWith(PageOf(r))
            /\ reqs' = At(r, "crops")
       ELSE /\ reqs' = Raised(r, FileMissing)
            /\ UNCHANGED files
    /\ UNCHANGED renderer
    /\ UNCHANGED scrframe

\* extract_images_with_questions / extract_diagrams_from_pages: the page is read
\* (cv2.imread gives None for a missing file and img.shape raises) and a crop written
ScrCrops(r) ==
    /\ reqs[r].pc = "crops"
    /\ dirs' = dirs \cup WithParents(CropsDirOf(reqs[r].variant))
    /\ IF PathExists(PageOf(r))
       THEN /\ files' = FilesWith(CropOf(r))
            /\ reqs' = [reqs EXCEPT ![r].pc = IF reqs[r].variant = "mcq1" THEN "build"
                                              ELSE "rmtmp",
                                    ![r].images = TRUE]
       ELSE /\ reqs' = Raised(r, FileMissing)
            /\ UNCHANGED files
    /\ UNCHANGED renderer
    /\ UNCHANGED scrframe

\* extract_images_from_document: `if os.path.exists(tmpdir): shutil.rmtree(tmpdir)`,
\* on the way out of the try block and of the except block
ScrRemoveTemp(r) ==
    /\ reqs[r].pc = "rmtmp"
    /\ dirs' = DirsWithout(Mcq2TempDir)
    /\ files' = FilesWithout(Mcq2TempDir)
    /\ reqs' = At(r, "build")
    /\ UNCHANGED renderer
    /\ UNCHANGED scrframe

\* the slides are built: a crop is placed when os.path.exists(path) holds
ScrBuild(r) ==
    /\ reqs[r].pc = "build"
    /\ reqs' = [reqs EXCEPT ![r].pc = "save",
                            ![r].images = reqs[r].images /\ PathExists(CropOf(r))]
    /\ UNCHANGED <<renderer, dirs, files>>
    /\ UNCHANGED scrframe

\* prs.save(path): it can raise; after it mcq2 removes extracted_diagrams, and
\* ConverterManager.convert stores the output and marks the job completed
ScrSave(r) ==
    /\ reqs[r].pc = "save"
    /\ \E saved \in BOOLEAN :
          IF saved
          THEN /\ reqs' = [reqs EXCEPT ![r].pc = "finally", ![r].status = "completed",
                                       ![r].output = TRUE]
               /\ dirs' = IF reqs[r].variant = "mcq2" THEN DirsWithout(Mcq2DiagramsDir)
                          ELSE dirs
               /\ files' = IF reqs[r].variant = "mcq2" THEN FilesWithout(Mcq2DiagramsDir)
                           ELSE files
          ELSE /\ reqs' = [reqs EXCEPT ![r].pc = "except", ![r].error = SaveFailed]
               /\ UNCHANGED <<dirs, files>>
    /\ UNCHANGED renderer
    /\ UNCHANGED scrframe

\* the `except Exception as e` branch of ConverterManager.convert
ScrExcept(r) ==
    /\ reqs[r].pc = "except"
    /\ reqs' = [reqs EXCEPT ![r].pc = "finally", ![r].status = "failed"]
    /\ UNCHANGED <<renderer, dirs, files>>
    /\ UNCHANGED scrframe

\* the `finally` branch of ConverterManager.convert: MEDIA_ROOT/extraction is removed
ScrFinally(r) ==
    /\ reqs[r].pc = "finally"
    /\ dirs' = DirsWithout(ExtractionDir)
    /\ files' = FilesWithout(ExtractionDir)
    /\ reqs' = At(r, "done")
    /\ UNCHANGED renderer
    /\ UNCHANGED scrframe

ScrNext ==
    \E r \in Requests :
        \/ ScrStart(r)
        \/ ScrClear(r)
        \/ ScrMakeTemp(r)
        \/ ScrPdf(r)
        \/ ScrPages(r)
        \/ ScrCrops(r)
        \/ ScrRemoveTemp(r)
        \/ ScrBuild(r)
        \/ ScrSave(r)
        \/ ScrExcept(r)
        \/ ScrFinally(r)

SpecScratch == ScrInit /\ [][ScrNext]_vars

\* the scratch directories a request of template type v works in
ScratchOf(v) ==
    IF v = "mcq1" THEN Under(ExtractionDir)
    ELSE IF v = "mcq2" THEN Under(Mcq2TempDir) \cup {Mcq2DiagramsDir}
    ELSE {}

\* every request has ended, or never started
AllEnded == \A r \in Requests : reqs[r].pc \in {"done", "absent"}

\* C14: for every run of a variant that rasterizes pages, the scratch area is deleted
\* and recreated before a page image or crop is written (so nothing of a run that
\* ended before this one started is in it), and no scratch directory exists after
\* the runs have ended, in success, in failure or through an exception.
C14_ScratchResetAndRemoved ==
    /\ AllEnded => dirs = {}
    /\ \A r \in Requests :
          (\E f \in files : f.by = r /\ f \in {PageOf(r), CropOf(r)}) =>
              \A g \in files : g.dir \in ScratchOf(reqs[r].variant) => g.by \notin reqs[r].after

\* a file its writer has still to read: the PDF before the pages are rendered, the
\* page before the crops are cut, the crop before the slides are built
Unconsumed(f) ==
    LET at == reqs[f.by].pc
    IN  \/ f = PdfOf(f.by) /\ at = "pages"
        \/ f = PageOf(f.by) /\ at = "crops"
        \/ f = CropOf(f.by) /\ at \in {"rmtmp", "build"}

\* C15: when two requests run concurrently no step removes or overwrites a page
\* image, PDF or diagram crop that an in-flight request has written and not yet
\* consumed.
C15_ScratchIsolated ==
    [][\A f \in files : Unconsumed(f) => f \in files']_vars

\* ---------------------------------------------------------------------------
\* Diagram placement on a question slide (mcq1_converter.py, lines 548-597)
\* ---------------------------------------------------------------------------
\* Lengths are whole EMU (Inches(x) = int(x * 914400)).  The sizes the code
\* computes are floating-point quotients; they are kept here as exact fractions
\* [n, d] and turned into the whole EMU the picture is written with at the end.

left_margin      == 4873752     \* Inches(5.33)
content_width    == 6858000     \* Inches(7.5)
max_image_height == 2057400     \* Inches(2.25)
ImageMargin      == 365760      \* Inches(0.4)
max_image_width  == content_width - ImageMargin
AspectLimit      == 25

Frac(n, d) == [n |-> n, d |-> d]

\* line 564: (max_image_width / max_image_height) > aspect_ratio
HeightLimited(w, h) == max_image_width * h > max_image_height * w

\* lines 564-576: the size before it is handed to add_picture
ImageSize(w, h) ==
    LET first == IF HeightLimited(w, h)
                 THEN [width  |-> Frac(max_image_height * w, h),
                       height |-> Frac(max_image_height, 1)]
                 ELSE [width  |-> Frac(max_image_width, 1),
                       height |-> Frac(max_image_width * h, w)]
    IN  IF first.height.n > max_image_height * first.height.d
        THEN [width  |-> Frac(max_image_height * w, h),
              height |-> Frac(max_image_height, 1)]
        ELSE first

\* line 587 alone: the picture starts at the left margin
ImageLeft_Margin(width) == Frac(0, 1)

\* lines 584-587: offset of the picture from the left margin
ImageLeft(width) ==
    IF width.n < content_width * width.d
    THEN Frac(content_width * width.d - width.n, 2 * width.d)
    ELSE Frac(0, 1)

\* The whole EMU a length is written with.  A whole length is written as it
\* is; a quotient is cut to its integer part, and a quotient whose exact value
\* is whole may have been rounded just below it by the floating-point division.
Truncations(f) ==
    IF f.d = 1 THEN {f.n}
    ELSE IF f.n % f.d = 0 THEN {f.n \div f.d, (f.n \div f.d) - 1}
    ELSE {f.n \div f.d}

ImgInit ==
    /\ img_width \in 1..MaxPixels
    /\ img_height \in 1..MaxPixels
    /\ pic_left = 0 /\ pic_width = 0 /\ pic_height = 0
    /\ ipc = "open"
    /\ ImgFrameIdle

\* lines 590-597: aspect_ratio < 25, the picture is added
AddPicture ==
    /\ ipc = "open"
    /\ img_width < AspectLimit * img_height
    /\ LET size == ImageSize(img_width, img_height)
       IN  /\ pic_width' \in Truncations(size.width)
           /\ pic_height' \in Truncations(size.height)
           /\ \E off \in Truncations(ImageLeft(size.width)) :
                 pic_left' = left_margin + off
    /\ ipc' = "placed"
    /\ UNCHANGED <<img_width, img_height>>
    /\ UNCHANGED imgframe

\* line 590: aspect_ratio >= 25, nothing is added
SkipPicture ==
    /\ ipc = "open"
    /\ ~(img_width < AspectLimit * img_height)
    /\ ipc' = "skipped"
    /\ UNCHANGED <<img_width, img_height, pic_left, pic_width, pic_height>>
    /\ UNCHANGED imgframe

ImgNext == AddPicture \/ SkipPicture

SpecImage == ImgInit /\ [][ImgNext]_vars

Abs(x) == IF x < 0 THEN 0 - x ELSE x

\* width : height equals img_width : img_height up to the one EMU each written length is cut by
AspectKept ==
    Abs(pic_width * img_height - pic_height * img_width) <= (IF img_width > img_height THEN img_width ELSE img_height)

\* the gaps left and right of the picture in the content column differ by at most the EMU cut off
Centered ==
    Abs((pic_left - left_margin) - (left_margin + content_width - (pic_left + pic_width))) <= 3

\* C16: a placed diagram keeps the image's aspect ratio (to the EMU), is at most
\* content width minus 0.4 in wide and at most 2.25 in high, and is horizontally
\* centered in the content column whenever it is narrower than the column.
C16_ScaledToFitAndCentered ==
    ipc = "placed" =>
        /\ AspectKept
        /\ pic_width <= content_width - ImageMargin
        /\ pic_height <= max_image_height
        /\ (pic_width < content_width => Centered)

\* a wide image placed at full sub-region width and less than the full height
C16_Witness ==
    /\ ipc = "placed"
    /\ pic_width = max_image_width
    /\ pic_height < max_image_height
    /\ pic_height > 0

\* ---------------------------------------------------------------------------
\* Order of chrome and content on a content slide
\* ---------------------------------------------------------------------------
Chrome == {"logo", "border"}

\* the elements of a slide that are its primary content
PrimaryContent == {"title", "content"}

\* C17: on every content slide every chrome element (logo, watermark, border
\* bars) is added after the primary content has been placed, none before it.
C17_ChromeAfterContent ==
    \A n \in 1..Len(prs_slides) :
        prs_slides[n].kind \in {"passage", "questions"} =>
            \A i, j \in 1..Len(prs_slides[n].added) :
                /\ prs_slides[n].added[i] \in Chrome
                /\ prs_slides[n].added[j] \in PrimaryContent
                => j < i

\* C18: when the document renderer binary is missing, every request of a variant
\* that rasterizes pages ends failed with a non-empty error message and no
\* output file; it never completes without diagrams.
C18_MissingRendererFails ==
    \A r \in Requests :
        (~renderer /\ Rasterizes(reqs[r].variant) /\ reqs[r].pc = "done") =>
            /\ reqs[r].status = "failed"
            /\ reqs[r].error # None
            /\ ~reqs[r].output

(***************************************************************************)
(* An upload request: form validation, the job, the dispatch to a converter *)
(***************************************************************************)
\* ConversionJob.TEMPLATE_CHOICES
TEMPLATE_CHOICES == {"passage", "mcq1", "mcq2", "mcq3"}

\* a mutant of converters: mcq3 is not registered
converters_WithoutMcq3 ==
    [passage |-> "convert_passage", mcq1 |-> "convert_mcq1", mcq2 |-> "convert_mcq2"]

\* ConverterManager.__init__: self.converters
converters ==
    [passage |-> "convert_passage", mcq1 |-> "convert_mcq1",
     mcq2 |-> "convert_mcq2", mcq3 |-> "convert_mcq3"]

\* the template types a request or a job is given here; the last two are no choices
TemplateTypes == TEMPLATE_CHOICES \cup {"mcq4", ""}

\* names of uploaded files
NameDocx      == <<"a", ".", "d", "o", "c", "x">>
NameUpperDocx == <<"A", ".", "D", "O", "C", "X">>
NameTxt       == <<"a", ".", "t", "x", "t">>
NameDocxTxt   == <<"a", ".", "d", "o", "c", "x", ".", "t", "x", "t">>
NameOnlyExt   == <<".", "d", "o", "c", "x">>
NameNoDot     == <<"a", "d", "o", "c", "x">>
UploadNames == {NameDocx, NameUpperDocx, NameTxt, NameDocxTxt, NameOnlyExt, NameNoDot}

DotDocx == <<".", "d", "o", "c", "x">>

\* 50 * 1024 * 1024, the limit of clean_input_file
MaxUploadSize == 52428800
UploadSizes == {0, 1, MaxUploadSize, MaxUploadSize + 1}

\* pathlib's Path(name).suffix: from the last dot on, unless that dot is the first
\* or the last character
PathSuffix(name) ==
    LET dots == {k \in 2..(Len(name) - 1) : name[k] = "."}
    IN  IF dots = {} \/ name[Len(name)] = "." THEN <<>>
        ELSE LET k == CHOOSE d \in dots : \A e \in dots : e <= d
             IN  SubSeq(name, k, Len(name))

\* FileExtensionValidator(allowed_extensions=['docx']) of ConversionJob.input_file
ExtensionAllowed(name) == Lower(PathSuffix(name)) = DotDocx

\* a mutant of CleanInputFile: the name is not looked at
CleanInputFile_AnyName(name, size) ==
    IF size > MaxUploadSize THEN {"File size must be under 50MB."} ELSE {}

\* ConversionForm.clean_input_file(file) for a file that is there
CleanInputFile(name, size) ==
    IF size > MaxUploadSize THEN {"File size must be under 50MB."}
    ELSE IF ~EndsWith(Lower(name), DotDocx) THEN {"Only .docx files are allowed."}
    ELSE {}

\* errors of the field input_file: the required FileField of the ModelForm, then
\* clean_input_file, then the validators of the model field
InputFileErrors(present, name, size) ==
    IF ~present THEN {"This field is required."}
    ELSE IF size = 0 THEN {"The submitted file is empty."}
    ELSE IF CleanInputFile(name, size) # {} THEN CleanInputFile(name, size)
    ELSE IF ~ExtensionAllowed(name) THEN {"File extension is not allowed."}
    ELSE {}

\* errors of the field template_type: required, one of the choices
TemplateTypeErrors(t) ==
    IF t = "" THEN {"This field is required."}
    ELSE IF t \notin TEMPLATE_CHOICES THEN {"Select a valid choice."}
    ELSE {}

\* form.errors of the POST
FormErrors ==
    [input_file    |-> InputFileErrors(up_present, up_name, up_size),
     template_type |-> TemplateTypeErrors(post_type)]

IsValid == FormErrors.input_file = {} /\ FormErrors.template_type = {}

NewJob(t) == [saved |-> TRUE, template_type |-> t, status |-> "pending",
              error_message |-> None, output_file |-> FALSE, processing_time |-> FALSE]

\* f"Unknown template type: {job.template_type}"
UnknownTemplateType(t) == <<"Unknown template type: ", t>>

\* the ConversionError or exception a converter function can end with
ConverterErrors(f) ==
    IF f = "convert_passage" THEN {<<"Passage conversion failed">>}
    ELSE IF f = "convert_mcq1" THEN {<<"MCQ Type 1 conversion failed">>, RendererMissing}
    ELSE IF f = "convert_mcq2"
    THEN {<<"MCQ Type 2 conversion error: ",
            "MCQ Type 2 conversion failed - output file not created">>,
          <<"MCQ Type 2 conversion error: ", SaveFailed[1]>>}
    ELSE {<<"MCQ Type 3 conversion error: ",
            "MCQ Type 3 conversion failed - output file not created">>,
          <<"MCQ Type 3 conversion error: ", SaveFailed[1]>>}

WebInit ==
    /\ entry \in {"form", "direct"}
    /\ IF entry = "form"
       THEN /\ up_present \in BOOLEAN
            /\ up_name \in (IF up_present THEN UploadNames ELSE {<<>>})
            /\ up_size \in (IF up_present THEN UploadSizes ELSE {0})
            /\ post_type \in TemplateTypes
            /\ job = [saved |-> FALSE, template_type |-> "", status |-> "pending",
                      error_message |-> None, output_file |-> FALSE,
                      processing_time |-> FALSE]
            /\ wpc = "post"
       ELSE /\ up_present = FALSE /\ up_name = <<>> /\ up_size = 0 /\ post_type = ""
            /\ \E t \in TemplateTypes : job = NewJob(t)
            /\ wpc = "convert"
    /\ form_errors = [input_file |-> {}, template_type |-> {}]
    /\ called = "none"
    /\ conv_exc = None
    /\ response = "none"
    /\ WebFrameIdle

\* HomeView.post, the form is not valid: FormView.form_invalid shows the form again
FormInvalid ==
    /\ wpc = "post"
    /\ ~IsValid
    /\ form_errors' = FormErrors
    /\ response' = "form"
    /\ wpc' = "done"
    /\ UNCHANGED <<entry, up_present, up_name, up_size, post_type, job, called, conv_exc>>
    /\ UNCHANGED webframe

\* HomeView.form_valid: the job is saved and given to converter_manager.convert
FormValid ==
    /\ wpc = "post"
    /\ IsValid
    /\ job' = NewJob(post_type)
    /\ wpc' = "convert"
    /\ UNCHANGED <<entry, up_present, up_name, up_size, post_type, form_errors, called,
                   conv_exc, response>>
    /\ UNCHANGED webframe

\* ConverterManager.convert, lines 41-47: status 'processing', the converter is looked up
ManagerBegin ==
    /\ wpc = "convert"
    /\ job' = [job EXCEPT !.status = "processing"]
    /\ IF job.template_type \in DOMAIN converters
       THEN /\ wpc' = "converter"
            /\ UNCHANGED conv_exc
       ELSE /\ wpc' = "except"
            /\ conv_exc' = UnknownTemplateType(job.template_type)
    /\ UNCHANGED <<entry, up_present, up_name, up_size, post_type, form_errors, called, response>>
    /\ UNCHANGED webframe

\* line 50: converter_func(job) returns the output path or raises
ManagerCalls ==
    /\ wpc = "converter"
    /\ called' = converters[job.template_type]
    /\ \/ /\ wpc' = "save"
          /\ UNCHANGED conv_exc
       \/ /\ wpc' = "except"
          /\ conv_exc' \in ConverterErrors(converters[job.template_type])
    /\ UNCHANGED <<entry, up_present, up_name, up_size, post_type, form_errors, job, response>>
    /\ UNCHANGED webframe

\* what open(output_path) and job.output_file.save can raise
StoreErrors == {<<"FileNotFoundError">>, <<"OSError: storage">>}

\* what os.remove(output_path) and the job.save() of line 65 can raise
CompleteErrors == {<<"PermissionError">>, <<"OperationalError: database is locked">>}

\* lines 52-55: the output file is read and stored with the job
\* (FieldFile.save saves the job too), or one of the two raises
ManagerSave ==
    /\ wpc = "save"
    /\ \/ /\ job' = [job EXCEPT !.output_file = TRUE]
          /\ wpc' = "cleanup"
          /\ UNCHANGED conv_exc
       \/ /\ conv_exc' \in StoreErrors
          /\ wpc' = "except"
          /\ UNCHANGED job
    /\ UNCHANGED <<entry, up_present, up_name, up_size, post_type, form_errors, called,
                   response>>
    /\ UNCHANGED webframe

\* lines 57-66: the temporary file is removed, status 'completed',
\* processing_time, job.save(); or the removal or the save raises
ManagerComplete ==
    /\ wpc = "cleanup"
    /\ \/ /\ job' = [job EXCEPT !.status = "completed", !.processing_time = TRUE]
          /\ wpc' = "return"
          /\ UNCHANGED conv_exc
       \/ /\ conv_exc' \in CompleteErrors
          /\ wpc' = "except"
          /\ UNCHANGED job
    /\ UNCHANGED <<entry, up_present, up_name, up_size, post_type, form_errors, called,
                   response>>
    /\ UNCHANGED webframe

\* lines 68-76: status 'failed', error_message = str(e), processing_time
ManagerExcept ==
    /\ wpc = "except"
    /\ job' = [job EXCEPT !.status = "failed", !.error_message = conv_exc,
                          !.processing_time = TRUE]
    /\ wpc' = "return"
    /\ UNCHANGED <<entry, up_present, up_name, up_size, post_type, form_errors, called,
                   conv_exc, response>>
    /\ UNCHANGED webframe

\* convert returns; HomeView.form_valid redirects to the download page or home
ManagerReturn ==
    /\ wpc = "return"
    /\ response' = IF entry = "direct" THEN (IF job.status = "completed" THEN "True" ELSE "False")
                   ELSE IF job.status = "completed" THEN "redirect download"
                   ELSE "redirect home"
    /\ wpc' = "done"
    /\ UNCHANGED <<entry, up_present, up_name, up_size, post_type, form_errors, job, called,
                   conv_exc>>
    /\ UNCHANGED webframe

WebNext ==
    \/ FormInvalid
    \/ FormValid
    \/ ManagerBegin
    \/ ManagerCalls
    \/ ManagerSave
    \/ ManagerComplete
    \/ ManagerExcept
    \/ ManagerReturn

SpecUpload == WebInit /\ [][WebNext]_vars

\* C19: every template type of TEMPLATE_CHOICES is registered, so convert never
\* fails with "Unknown template type" for a job of such a type and calls that
\* type's converter; for any other template type the job ends failed with that
\* error and no converter has run.
C19_ChoicesAreRegistered ==
    /\ TEMPLATE_CHOICES \subseteq DOMAIN converters
    /\ (job.saved /\ job.template_type \in TEMPLATE_CHOICES) =>
          /\ conv_exc # UnknownTemplateType(job.template_type)
          /\ job.error_message # UnknownTemplateType(job.template_type)
          /\ wpc \in {"save", "return", "done"} => called = converters[job.template_type]
    /\ (job.saved /\ job.template_type \notin TEMPLATE_CHOICES /\ wpc = "done") =>
          /\ job.status = "failed"
          /\ job.error_message = UnknownTemplateType(job.template_type)
          /\ called = "none"
          /\ ~job.output_file

\* a job whose template type is no choice has ended failed, no converter called
C19_Witness ==
    /\ wpc = "done"
    /\ job.template_type = "mcq4"
    /\ job.status = "failed"
    /\ called = "none"

\* the request was turned away by the form: shown again, no job, no conversion
Rejected ==
    /\ response = "form"
    /\ ~job.saved
    /\ called = "none"
    /\ job.status = "pending"

ContentSlideIndexes == {n \in 1..Len(prs_slides) : prs_slides[n].kind # "title"}

\* C21: the directions text is on the first content slide of the deck only; no
\* later slide carries it, whatever the number of passages and questions.
C21_DirectionsOnFirstSlideOnly ==
    \A n \in ContentSlideIndexes :
        prs_slides[n].directions => \A m \in ContentSlideIndexes : n <= m

\* the source number of the question a slide belongs to: an arrangement slide is
\* followed by the slide of its question
SlideQuestionNum(n) ==
    IF slides[n].kind = "question" THEN QuestionNum(slides[n].text)
    ELSE IF n < Len(slides) THEN QuestionNum(slides[n + 1].text)
    ELSE -1

\* C22: once the slides are built, every diagram the extraction assigned to
\* the number k of a parsed question is on a slide of a question whose source number is k, and on
\* no slide of a question with another number.
C22_DiagramsMergedByNumber ==
    pc = "saved" =>
        \A k \in {m \in DOMAIN extracted_images :
                     \E i \in 1..Len(content_blocks) : QuestionNum(content_blocks[i].content) = m} :
            \A j \in 1..Len(extracted_images[k]) :
                /\ \E n \in 1..Len(slides) :
                      /\ slides[n].diagram = <<extracted_images[k][j]>>
                      /\ SlideQuestionNum(n) = k
                /\ \A n \in 1..Len(slides) :
                      slides[n].diagram = <<extracted_images[k][j]>> => SlideQuestionNum(n) = k


\* a step leaves every entry of the map in place, as a prefix of what it becomes
EntriesKept ==
    \A k \in DOMAIN results :
        /\ k \in DOMAIN results'
        /\ Len(results'[k]) >= Len(results[k])
        /\ SubSeq(results'[k], 1, Len(results[k])) = results[k]

\* a step that accepts a crop appends one path to the list of its question and
\* nothing else; any other step leaves the map as it is
OnePathAppended ==
    IF written' # written
    THEN /\ Len(written') = Len(written) + 1
         /\ LET k == written'[Len(written')].path.q
            IN  /\ results'[k] = Append(IF k \in DOMAIN results THEN results[k] ELSE <<>>,
                                        written'[Len(written')].path)
                /\ \A m \in DOMAIN results' \ {k} : m \in DOMAIN results /\ results'[m] = results[m]
    ELSE results' = results

\* no two crops of the pass went to the same file
PathsDistinct ==
    \A i, j \in 1..Len(written) : i # j => written[i].path # written[j].path

MarkerI    == "PASSAGE - I"
MarkerII   == "PASSAGE - II"
BodyLine   == "The night was dark."
BlankLine  == ""
QuestionA  == "1.\tWhat was dark?"
QuestionB  == "2.\tWhy?"

\* lines matching PASSAGE\s*[-]+\s*[IVX]+
PassageMarkers == {MarkerI, MarkerII}
\* lines starting with \d{1,2}\.\t
QuestionStarts == {QuestionA, QuestionB}

ContentLines == {MarkerI, MarkerII, BodyLine, BlankLine, QuestionA, QuestionB}
Contents_ == UNION {[1..n -> ContentLines] : n \in 0..MaxContentLines}

\* least element of a set of numbers, 0 when it is empty
Least(S) == IF S = {} THEN 0 ELSE CHOOSE k \in S : \A m \in S : k <= m

\* str.strip() of a text given by its lines: the blank lines at both ends go
StripLines(ls) ==
    LET keep == {k \in 1..Len(ls) : ls[k] # BlankLine}
    IN  IF keep = {} THEN <<>>
        ELSE SubSeq(ls, Least(keep), CHOOSE k \in keep : \A m \in keep : k >= m)

\* the first place of '\n\n\n\n' in a text: the index of the first of three blank
\* lines in a row, 0 when there is none
FirstSeparator(ls) ==
    Least({k \in 1..(Len(ls) - 2) :
              ls[k] = BlankLine /\ ls[k + 1] = BlankLine /\ ls[k + 2] = BlankLine})

\* re.findall(passage_pattern, content, re.DOTALL) from line p on: the marker,
\* '\s*\n' over the blank lines after it, then the lines up to the newline before
\* the next marker line or to the end
RECURSIVE MatchesFrom(_, _)
MatchesFrom(ls, p) ==
    LET i == Least({k \in p..Len(ls) : ls[k] \in PassageMarkers})
        j == Least({k \in (i + 1)..Len(ls) : ls[k] # BlankLine})
        k == Least({m \in (j + 1)..Len(ls) : ls[m] \in PassageMarkers})
    IN  IF i = 0 THEN <<>>
        ELSE IF j = 0 THEN <<[number |-> ls[i], text |-> <<>>]>>
        ELSE IF k = 0 THEN <<[number |-> ls[i], text |-> SubSeq(ls, j, Len(ls))]>>
        ELSE <<[number |-> ls[i], text |-> SubSeq(ls, j, k - 1)]>> \o MatchesFrom(ls, k)

\* re.split(r'(?=(?:^|\n)\d{1,2}\.\t)', text) with the parts stripped and the
\* empty ones dropped: the lines before the first question line, then each
\* question line with the lines after it
SplitQuestionsAt(ls) ==
    LET starts == {k \in 1..Len(ls) : ls[k] \in QuestionStarts}
        cuts   == starts \cup {1}
        EndOf(c) == LET later == {d \in cuts : d > c}
                    IN  IF later = {} THEN Len(ls) ELSE Least(later) - 1
        Part(n)  == LET c == CHOOSE d \in cuts : Cardinality({e \in cuts : e <= d}) = n
                    IN  StripLines(SubSeq(ls, c, EndOf(c)))
    IN  IF ls = <<>> THEN <<>>
        ELSE SelectSeq([n \in 1..Cardinality(cuts) |-> Part(n)], LAMBDA part : part # <<>>)

PpInit ==
    /\ pcontent \in Contents_
    /\ passage_matches = <<>>
    /\ match_idx = 0
    /\ parsed = <<>>
    /\ parse_pc = "start"
    /\ PpFrameIdle

\* lines 57-58: passage_matches = re.findall(...)
FindPassages ==
    /\ parse_pc = "start"
    /\ passage_matches' = MatchesFrom(pcontent, 1)
    /\ match_idx' = 1
    /\ parse_pc' = "loop"
    /\ UNCHANGED <<pcontent, parsed>>
    /\ UNCHANGED ppframe

\* lines 60-73: one passage of the loop; the unpacking of split('\n\n\n\n', 1)
\* raises ValueError when the text holds no separator
ParsePassage ==
    /\ parse_pc = "loop"
    /\ match_idx <= Len(passage_matches)
    /\ LET passage_text == StripLines(passage_matches[match_idx].text)
           sep          == FirstSeparator(passage_text)
       IN  IF sep = 0
           THEN /\ parse_pc' = "ValueError"
                /\ UNCHANGED <<parsed, match_idx>>
           ELSE /\ parsed' = Append(parsed,
                       [number    |-> passage_matches[match_idx].number,
                        content   |-> SubSeq(passage_text, 1, sep - 1),
                        questions |-> SplitQuestionsAt(StripLines(
                                          SubSeq(passage_text, sep + 3, Len(passage_text))))])
                /\ match_idx' = match_idx + 1
                /\ UNCHANGED parse_pc
    /\ UNCHANGED <<pcontent, passage_matches>>
    /\ UNCHANGED ppframe

\* line 74: return sections
ParseSectionsReturn ==
    /\ parse_pc = "loop"
    /\ match_idx > Len(passage_matches)
    /\ parse_pc' = "returned"
    /\ UNCHANGED <<pcontent, passage_matches, match_idx, parsed>>
    /\ UNCHANGED ppframe

PpNext == FindPassages \/ ParsePassage \/ ParseSectionsReturn

SpecPassageParse == PpInit /\ [][PpNext]_vars

\* the record the description gives the marker at line i: the body is the text
\* after the marker up to the first separator (all of it when there is none), the
\* questions are the rest split at the question lines
DescribedRecord(i) ==
    LET later  == {k \in (i + 1)..Len(pcontent) : pcontent[k] \in PassageMarkers}
        last   == IF later = {} THEN Len(pcontent) ELSE Least(later) - 1
        text   == StripLines(SubSeq(pcontent, i + 1, last))
        sep    == FirstSeparator(text)
    IN  [number    |-> pcontent[i],
         content   |-> IF sep = 0 THEN text ELSE SubSeq(text, 1, sep - 1),
         questions |-> IF sep = 0 THEN <<>>
                       ELSE SplitQuestionsAt(StripLines(SubSeq(text, sep + 3, Len(text))))]

\* the records of all the markers of the document, in source order
DescribedPassages ==
    LET marks == {k \in 1..Len(pcontent) : pcontent[k] \in PassageMarkers}
    IN  [n \in 1..Cardinality(marks) |->
            DescribedRecord(CHOOSE d \in marks : Cardinality({e \in marks : e <= d}) = n)]

\* C24: parse_document_content returns, for every PASSAGE marker, exactly one
\* record whose body is the text up to the first four-newline separator and whose
\* questions are the rest split at the question lines, in source order; also for
\* a passage without separator or without questions.
C24_OneRecordPerMarker ==
    /\ parse_pc # "ValueError"
    /\ parse_pc = "returned" => parsed = DescribedPassages

\* a non-empty line that matches no structural pattern and no non-content marker
PlainLine(text) ==
    /\ text # <<>>
    /\ ~IsDirection(text)
    /\ ~IsArrangementLine(text)
    /\ ~IsArrangementPattern(text)
    /\ ~IsQuestionMarker(text)
    /\ ~IsOption(text)
    /\ ~IsTableOrSeparator(text)

\* C25: while a question is open, a plain line is appended verbatim to the body
\* of that question, whether or not arrangement text is pending, and parsing it
\* raises no error.
C25_PlainLineAppended ==
    [][(/\ pc = "parse"
        /\ line_idx <= Len(doc)
        /\ content_blocks # <<>>
        /\ PlainLine(Strip(doc[line_idx])))
       => (/\ pc' = "parse"
           /\ content_blocks' = AppendContent(content_blocks, Strip(doc[line_idx])))]_vars

\* C26: the budget the caller configured is the one that closes continuation
\* chunks: once the first chunk is closed, a sentence closes the open chunk
\* exactly when it would take the chunk over the configured budget.
C26_ConfiguredBudgetCloses ==
    [][(/\ ppc = "loop"
        /\ sent_idx <= Len(sentences)
        /\ Len(slide_contents) >= 1
        /\ current_chunk # <<>>)
       => (Len(slide_contents') = Len(slide_contents) + 1
             <=> current_length + sentences[sent_idx].len > configured_budget)]_vars

\* ---------------------------------------------------------------------------
\* The horizontal layout of the slides of passage_converter.py, in EMU
\* (Inches(x) is int(x * 914400))

\* `prs.slide_width = Inches(13.33)`
SlideWidth == 12188952

\* `left = Inches(5.0)` of the title shape, of the passage text box and of the
\* question text box
passage_left == 4572000

\* `width = Inches(8)` of the same three shapes and of the footer
passage_width == 7315200

\* `left = Inches(11.25)` of the "Continued" footer
footer_left == 10287000

\* the left edge the converter gives the elements of `added` that carry text
ShapeLeft(element) ==
    IF element = "Continued" THEN footer_left ELSE passage_left

\* the width the converter gives them
ShapeWidth(element) == passage_width

\* the elements of a slide that carry text
ContentElements == {"title", "content", "Continued"}

\* the reserved left region ends where the converter starts its content: 5 in
\* of the 13.33 in of the slide
ReservedLeft == passage_left

\* C27: on every passage and question slide, each content element (title, text
\* box, "Continued" footer) has its left edge at or beyond the reserved left
\* region and its right edge within the slide width.
C27_ContentInsideRightRegion ==
    \A n \in 1..Len(prs_slides) :
        prs_slides[n].kind \in {"passage", "questions"} =>
            \A k \in 1..Len(prs_slides[n].added) :
                LET element == prs_slides[n].added[k]
                IN  element \in ContentElements =>
                        /\ ShapeLeft(element) >= ReservedLeft
                        /\ ShapeLeft(element) + ShapeWidth(element) <= SlideWidth

\* C28: a call of convert on a pending job moves its status pending ->
\* processing -> completed or failed and leaves it neither pending nor
\* processing at return; it returns True exactly when the job is completed; a
\* completed job has its output file and its processing time; a failed job has
\* the text of the exception as error_message and no output file.
C28_ConvertOutcome ==
    job.saved =>
        /\ wpc = "convert" => job.status = "pending"
        /\ wpc \in {"converter", "save", "cleanup", "except"} => job.status = "processing"
        /\ wpc \in {"return", "done"} => job.status \in {"completed", "failed"}
        /\ (wpc = "done" /\ entry = "direct") =>
              (response = "True" <=> job.status = "completed")
        /\ job.status = "completed" => job.output_file /\ job.processing_time
        /\ job.status = "failed" => job.error_message = conv_exc /\ ~job.output_file

\* ---------------------------------------------------------------------------
\* cleanup_old_conversions.py: Command.handle

\* the most jobs in the database
MaxJobs == 3

\* timezone.now(), in days; created_at is a day of 0..Today
Today == 3

JobIds == 1..MaxJobs

\* the files of job j: input_file and output_file
FilesOf(j) == {<<j, "input">>, <<j, "output">>}

\* a mutant of OldJobs: every job of the table
OldJobs_All(cutoff_date) == rows

\* ConversionJob.objects.filter(created_at__lt=cutoff_date)
OldJobs(cutoff_date) == {j \in rows : created[j] < cutoff_date}

\* `cutoff_date = timezone.now() - timedelta(days=days)`
CutoffDate == Today - days

\* the job the iteration of the queryset yields next: Meta.ordering is
\* ['-created_at'], jobs of the same created_at in any order
NextOf(jobs) == {j \in jobs : \A k \in jobs : created[k] <= created[j]}

ClnInit ==
    /\ rows \in SUBSET JobIds
    /\ created \in [JobIds -> 0..Today]
    /\ \A j \in JobIds \ rows : created[j] = 0
    /\ \E outs \in SUBSET rows :
          storage = {<<j, "input">> : j \in rows} \cup {<<j, "output">> : j \in outs}
    /\ days \in 0..Today
    /\ dry_run \in BOOLEAN
    /\ old_jobs = {}
    /\ visited = <<>>
    /\ errored = {}
    /\ deleted_count = 0
    /\ clpc = "start"
    /\ ClnFrameIdle

\* handle up to the loop: the cutoff date, the queryset, its count; nothing to
\* do when it is empty, and only a listing with --dry-run
HandleBegin ==
    /\ clpc = "start"
    /\ IF OldJobs(CutoffDate) = {} \/ dry_run
       THEN /\ clpc' = "done"
            /\ UNCHANGED old_jobs
       ELSE /\ clpc' = "loop"
            /\ old_jobs' = OldJobs(CutoffDate)
    /\ UNCHANGED <<rows, created, storage, days, dry_run, visited, errored, deleted_count>>
    /\ UNCHANGED clnframe

\* one iteration of `for job in old_jobs`: delete_files() removes the input
\* file, then the output file, then job.delete() removes the row; an exception
\* of any of the three is written to stdout and the loop goes on
HandleDeleteJob ==
    /\ clpc = "loop"
    /\ \E job_ \in NextOf(old_jobs) :
          /\ old_jobs' = old_jobs \ {job_}
          /\ visited' = Append(visited, job_)
          /\ \/ /\ storage' = storage \ FilesOf(job_)
                /\ rows' = rows \ {job_}
                /\ deleted_count' = deleted_count + 1
                /\ UNCHANGED errored
             \/ /\ errored' = errored \cup {job_}
                /\ \/ storage' = storage                        \* input_file.delete raised
                   \/ storage' = storage \ {<<job_, "input">>}  \* output_file.delete raised
                   \/ storage' = storage \ FilesOf(job_)        \* job.delete raised
                /\ UNCHANGED <<rows, deleted_count>>
    /\ old_jobs # {}
    /\ UNCHANGED <<created, days, dry_run, clpc>>
    /\ UNCHANGED clnframe

\* the loop is over: "Successfully deleted ..."
HandleEnd ==
    /\ clpc = "loop"
    /\ old_jobs = {}
    /\ clpc' = "done"
    /\ UNCHANGED <<rows, created, storage, days, dry_run, old_jobs, visited, errored,
                   deleted_count>>
    /\ UNCHANGED clnframe

ClnNext ==
    \/ HandleBegin
    \/ HandleDeleteJob
    \/ HandleEnd

SpecCleanup == ClnInit /\ [][ClnNext]_vars

\* job j is older than now minus the given number of days
IsOld(j) == created[j] < Today - days

\* the jobs the loop has visited
Visited == {visited[i] : i \in 1..Len(visited)}

\* every job the loop has visited is old and the run is no dry run; a deleted
\* job has none of its files left; deleted_count counts the deleted jobs; at
\* the end every old job is deleted or has its error on stdout
CleanupState ==
    /\ \A j \in Visited : IsOld(j) /\ ~dry_run
    /\ \A j \in Visited : j \notin rows => FilesOf(j) \cap storage = {}
    /\ deleted_count = Cardinality(Visited \ rows)
    /\ clpc = "done" /\ ~dry_run =>
          \A j \in JobIds : (IsOld(j) /\ j \in rows) => j \in errored

\* a step leaves the row and the files of job j as they are
JobKept(j) ==
    /\ j \in rows' <=> j \in rows
    /\ FilesOf(j) \cap storage' = FilesOf(j) \cap storage

\* C29: the command deletes only jobs older than now minus the given days,
\* together with their input and output files; with --dry-run no job and no
\* file is deleted; an error while deleting one job does not stop the deletion
\* of the remaining old jobs.
C29_CleanupDeletesOnlyOld ==
    /\ []CleanupState
    /\ [][\A j \in JobIds : (~IsOld(j) \/ dry_run) => JobKept(j)]_vars

\* an old job was deleted after the deletion of another one had raised
C29_Witness ==
    /\ clpc = "done"
    /\ \E i, k \in 1..Len(visited) :
          /\ i < k
          /\ visited[i] \in errored
          /\ visited[k] \notin rows
          /\ FilesOf(visited[k]) \cap storage = {}
    /\ \E j \in rows : ~IsOld(j) /\ <<j, "output">> \in storage

\* ---------------------------------------------------------------------------
\* mcq3_converter.py: parse_word_document

\* the most paragraphs of a document
MaxParas == 4

\* paragraph texts: nothing but white space, two question lines, an option, a
\* plain sentence, a direction line, and a numbered line with the direction
\* phrase in it
ParaBlank == "   "
ParaQ1 == "1. What is the capital of France?"
ParaQ2 == "12. Which is a prime?"
ParaOption == "(a) Paris (b) Rome"
ParaPlain == "Choose the best answer."
ParaDirection == "Directions for questions 1 to 5:"
ParaNumberedDirection == "3. DIRECTIONS: mark the odd one."

ParaTexts == {ParaBlank, ParaQ1, ParaQ2, ParaOption, ParaPlain, ParaDirection,
              ParaNumberedDirection}

\* `not text` for text = para.text.strip()
StripsToNothing(text) == text = ParaBlank

\* "Directions for questions" in text or "DIRECTIONS:" in text
HasDirectionPhrase(text) == text \in {ParaDirection, ParaNumberedDirection}

\* re.match(r'^\d{1,2}+\.', text)
MatchesQuestionNumber(text) == text \in {ParaQ1, ParaQ2, ParaNumberedDirection}

\* a 'question' block; its content is current_question, the lines that the
\* code joins with '\n'
QuestionBlock(direction, question) ==
    [type |-> "question", direction |-> direction, content |-> question]

\* an 'info' block
InfoBlock(direction, text) ==
    [type |-> "info", direction |-> direction, content |-> <<text>>]

\* `if current_question: content_blocks.append({...})`
SaveQuestion(blocks, direction, question) ==
    IF question # <<>> THEN Append(blocks, QuestionBlock(direction, question)) ELSE blocks

\* a mutant of LastQuestion: the question open at the end is forgotten
LastQuestion_Forgotten(blocks, direction, question) == blocks

\* "Don't forget the last question", after the loop
LastQuestion(blocks, direction, question) == SaveQuestion(blocks, direction, question)

M3Init ==
    /\ paragraphs \in UNION {[1..n -> ParaTexts] : n \in 0..MaxParas}
    /\ para_idx = 1
    /\ blocks3 = <<>>
    /\ direction3 = <<>>
    /\ question3 = <<>>
    /\ text_info = FALSE
    /\ m3pc = "loop"
    /\ M3FrameIdle

\* one iteration of `for para in doc.paragraphs`
Mcq3ParseParagraph ==
    /\ m3pc = "loop"
    /\ para_idx <= Len(paragraphs)
    /\ para_idx' = para_idx + 1
    /\ LET text == paragraphs[para_idx]
           with_info == IF text_info
                        THEN Append(blocks3, InfoBlock(direction3, text))
                        ELSE blocks3
       IN  IF StripsToNothing(text)
           THEN UNCHANGED <<blocks3, direction3, question3, text_info>>
           ELSE IF HasDirectionPhrase(text)
           THEN /\ text_info' = TRUE
                /\ blocks3' = SaveQuestion(with_info, direction3, question3)
                /\ question3' = <<>>
                /\ direction3' = <<text>>
           ELSE IF MatchesQuestionNumber(text)
           THEN /\ text_info' = FALSE
                /\ blocks3' = SaveQuestion(with_info, direction3, question3)
                /\ question3' = <<text>>
                /\ UNCHANGED direction3
           ELSE /\ text_info' = FALSE
                /\ blocks3' = with_info
                /\ question3' = IF question3 # <<>> THEN Append(question3, text)
                                ELSE question3
                /\ UNCHANGED direction3
    /\ UNCHANGED <<paragraphs, m3pc>>
    /\ UNCHANGED m3frame

\* the loop is over: the last question, `return content_blocks`
Mcq3ParseReturn ==
    /\ m3pc = "loop"
    /\ para_idx > Len(paragraphs)
    /\ blocks3' = LastQuestion(blocks3, direction3, question3)
    /\ m3pc' = "returned"
    /\ UNCHANGED <<paragraphs, para_idx, direction3, question3, text_info>>
    /\ UNCHANGED m3frame

M3Next ==
    \/ Mcq3ParseParagraph
    \/ Mcq3ParseReturn

SpecMcq3Parse == M3Init /\ [][M3Next]_vars

\* the non-empty lines from paragraph j on, up to the next question marker or
\* direction line
RECURSIVE FollowingLines(_)
FollowingLines(j) ==
    IF j > Len(paragraphs) THEN <<>>
    ELSE IF StripsToNothing(paragraphs[j]) THEN FollowingLines(j + 1)
    ELSE IF HasDirectionPhrase(paragraphs[j]) \/ MatchesQuestionNumber(paragraphs[j])
    THEN <<>>
    ELSE <<paragraphs[j]>> \o FollowingLines(j + 1)

\* the index of the first non-empty paragraph from j on, 0 when there is none
RECURSIVE NextNonEmpty(_)
NextNonEmpty(j) ==
    IF j > Len(paragraphs) THEN 0
    ELSE IF StripsToNothing(paragraphs[j]) THEN NextNonEmpty(j + 1)
    ELSE j

\* the indexes of the paragraphs, in order
ParaIndexes == [j \in 1..Len(paragraphs) |-> j]

\* the contents of the blocks of one type, in order
ContentsOf(type) ==
    LET of_type == SelectSeq(blocks3, LAMBDA b : b.type = type)
    IN  [k \in 1..Len(of_type) |-> of_type[k].content]

\* the question contents that a sequence of marker indexes stands for
QuestionsAt(markers) ==
    [k \in 1..Len(markers) |-> <<paragraphs[markers[k]]>> \o FollowingLines(markers[k] + 1)]

\* C30 as stated: one 'question' block per non-empty line matching
\* ^\d{1,2}\., in source order and never twice, the last one included; the
\* content of each is its marker line and the non-empty lines up to the next
\* marker or direction line; each direction line causes exactly one 'info'
\* block, holding the next non-empty line.
C30_OneBlockPerMarker ==
    m3pc = "returned" =>
        LET markers    == SelectSeq(ParaIndexes,
                                    LAMBDA j : MatchesQuestionNumber(paragraphs[j]))
            directions == SelectSeq(ParaIndexes,
                                    LAMBDA j : HasDirectionPhrase(paragraphs[j]))
            infos      == ContentsOf("info")
        IN  /\ ContentsOf("question") = QuestionsAt(markers)
            /\ Len(infos) = Len(directions)
            /\ \A k \in 1..Len(directions) :
                  /\ NextNonEmpty(directions[k] + 1) # 0
                  /\ infos[k] = <<paragraphs[NextNonEmpty(directions[k] + 1)]>>

\* a question marker as the code sees it: the direction phrase is looked for first
IsMarker(text) == MatchesQuestionNumber(text) /\ ~HasDirectionPhrase(text)

\* C30, amended: a line with the direction phrase is a direction line even when
\* it starts with a number, and a direction line causes an 'info' block only
\* when a non-empty line follows it.
C30_OneBlockPerMarkerDirectionFirst ==
    m3pc = "returned" =>
        LET markers    == SelectSeq(ParaIndexes, LAMBDA j : IsMarker(paragraphs[j]))
            directions == SelectSeq(ParaIndexes,
                                    LAMBDA j : HasDirectionPhrase(paragraphs[j]))
            followed   == SelectSeq(directions, LAMBDA d : NextNonEmpty(d + 1) # 0)
            infos      == ContentsOf("info")
        IN  /\ ContentsOf("question") = QuestionsAt(markers)
            /\ Len(infos) = Len(followed)
            /\ \A k \in 1..Len(followed) :
                  infos[k] = <<paragraphs[NextNonEmpty(followed[k] + 1)]>>

\* two questions, the second one open at the end of the input, and an info
\* block of a direction line between them
C30_Witness ==
    /\ m3pc = "returned"
    /\ Len(ContentsOf("question")) = 2
    /\ Len(ContentsOf("info")) = 1
    /\ blocks3[Len(blocks3)].type = "question"
    /\ Len(blocks3[Len(blocks3)].content) = 2

====
